---- MODULE Spec2Model ----
(***************************************************************************)
(* A model of the crab-synthesizer audio core: the note-to-frequency       *)
(* table, the one-pole "low-pass filter", the Sine / Square / Saw          *)
(* oscillators and the event loop that builds an oscillator per note.      *)
(*                                                                         *)
(* f32 values are modelled in sign-magnitude fixed point: a value is the   *)
(* record [s |-> 1 or -1, m |-> magnitude, e |-> halvings], that is        *)
(* s * m / (Scale * 2^e).  The sign                                        *)
(* is kept apart from the magnitude as IEEE-754 does, so +0.0 and -0.0     *)
(* are different values that compare equal (FEq), which is what decides    *)
(* f32::signum at zero.  NaN and the infinities are not modelled: every    *)
(* input of the model is finite.                                           *)
(***************************************************************************)
EXTENDS Integers, Sequences, FiniteSets, TLC

\* ------------------------------------------------------------------------
\* Bounds of the model
\* ------------------------------------------------------------------------

\* Fixed-point resolution of a modelled f32: one unit is 1/Scale.
Scale == 1000

\* Width of usize in the model, in bits.  The program's usize has 32 or 64
\* bits; the counter arithmetic is the same modulo 2^UsizeBits.
UsizeBits == 3

\* The event loop's octave is not bounded by its handlers; the model lets it
\* move at most OctaveSpan steps away from the reference octave.
OctaveSpan == 1

UsizeModulus == 2 ^ UsizeBits

\* next() calls followed on one oscillator: past the wrap of the counter.
MaxCalls == UsizeModulus + 1

\* The sample rate the playback envelope counts with.  It stands for
\* SAMPLE_RATE, scaled down so that a note is a few samples long.
NoteRate == 12

\* Notes triggered in one run of the input loop.
MaxTriggers == 2

\* ------------------------------------------------------------------------
\* f32 arithmetic (sign-magnitude fixed point with a binary exponent)
\* ------------------------------------------------------------------------

\* The value s * m / (Scale * 2^e).  An f32 has a binary exponent, so scaling
\* by a power of two is exact: e counts the halvings that the magnitude, an
\* integer, cannot take.  Values are kept normalised (Norm): e is 0 unless m
\* is odd.
F(s, m) == [s |-> s, m |-> m, e |-> 0]

RECURSIVE Norm(_, _, _)
Norm(s, m, e) ==
  IF m = 0 THEN [s |-> s, m |-> 0, e |-> 0]
  ELSE IF e > 0 /\ m % 2 = 0 THEN Norm(s, m \div 2, e - 1)
  ELSE [s |-> s, m |-> m, e |-> e]

Max(a, b) == IF a > b THEN a ELSE b

PosZero == F(1, 0)

NegZero == F(-1, 0)

One == F(1, Scale)

\* c / 100 as an f32 (the literals of the source have two decimals).
Hundredths(c) == F(IF c < 0 THEN -1 ELSE 1, ((IF c < 0 THEN -c ELSE c) * Scale) \div 100)

\* The signed magnitude of a in units of 1 / (Scale * 2^e), e >= a.e.
Aligned(a, e) == a.s * a.m * (2 ^ (e - a.e))

Signed(a) == Aligned(a, a.e)

FNeg(a) == [a EXCEPT !.s = -a.s]

\* IEEE addition: an exact zero sum is +0.0 unless both operands are negative.
FAdd(a, b) ==
  LET e   == Max(a.e, b.e)
      sum == Aligned(a, e) + Aligned(b, e)
  IN  IF sum > 0 THEN Norm(1, sum, e)
      ELSE IF sum < 0 THEN Norm(-1, -sum, e)
      ELSE IF a.s = -1 /\ b.s = -1 THEN NegZero
      ELSE PosZero

FSub(a, b) == FAdd(a, FNeg(b))

\* IEEE multiplication: the sign is the product of the signs, also when the
\* magnitude is (or rounds to) zero; round to nearest.  The product
\* a.m * b.m / Scale is taken in two parts so that it stays in range.
FMul(a, b) ==
  Norm(a.s * b.s,
       (a.m \div Scale) * b.m + ((a.m % Scale) * b.m + Scale \div 2) \div Scale,
       a.e + b.e)

\* f32 == : the two zeros are equal.
FEq(a, b) == (a.m = 0 /\ b.m = 0) \/ a = b

FLt(a, b) == Aligned(a, Max(a.e, b.e)) < Aligned(b, Max(a.e, b.e))

FAbs(a) == [a EXCEPT !.s = 1]

\* ------------------------------------------------------------------------
\* waveforms/mod.rs
\* ------------------------------------------------------------------------

SAMPLE_RATE == 48000

\* AMPLITUDE: f32 = 0.20
AMPLITUDE == Hundredths(20)

\* One period of phase, in units of Hz/Scale * samples.
Period == Scale * SAMPLE_RATE

\* Resolution of the modelled sin(): steps per half period.
PhaseRes == SAMPLE_RATE \div 100

\* ------------------------------------------------------------------------
\* music_theory/note.rs
\* ------------------------------------------------------------------------

Note == {"C", "CSharp", "D", "DSharp", "E", "F", "FSharp", "G", "GSharp", "A", "ASharp", "B"}

\* The match of Note::frequency: the base frequency of each note.
base_frequency(note) ==
  CASE note = "C"      -> Hundredths(26163)
    [] note = "CSharp" -> Hundredths(27718)
    [] note = "D"      -> Hundredths(29366)
    [] note = "DSharp" -> Hundredths(31113)
    [] note = "E"      -> Hundredths(32963)
    [] note = "F"      -> Hundredths(34923)
    [] note = "FSharp" -> Hundredths(36999)
    [] note = "G"      -> Hundredths(39200)
    [] note = "GSharp" -> Hundredths(41530)
    [] note = "A"      -> Hundredths(44000)
    [] note = "ASharp" -> Hundredths(46616)
    [] note = "B"      -> Hundredths(49388)

\* Mutant of MulPowi2: a negative power divides at the resolution of the
\* magnitude, rounding to nearest, instead of moving the exponent.
MulPowi2_rounded(x, k) ==
  IF k >= 0 THEN Norm(x.s, x.m * (2 ^ k), x.e)
  ELSE Norm(x.s, (x.m + (2 ^ (-k)) \div 2) \div (2 ^ (-k)), x.e)

\* x * 2.0_f32.powi(k): scaling by a power of two is exact in an f32, for
\* k >= 0 and for k < 0 alike (the halvings go to the exponent).
MulPowi2(x, k) ==
  IF k >= 0 THEN Norm(x.s, x.m * (2 ^ k), x.e)
  ELSE Norm(x.s, x.m, x.e - k)

\* Mutant of frequency: the reference octave is taken to be 3.
frequency_reference_octave_3(note, octave_value) ==
  MulPowi2(base_frequency(note), octave_value - 3)

\* Note::frequency(&self, octave): base_frequency * 2.0_f32.powi(octave.value - 4)
frequency(note, octave_value) == MulPowi2(base_frequency(note), octave_value - 4)

\* synths/wave_table.rs: enum Note of the wavetable revision, seven notes.
WavetableNote == {"A", "B", "C", "D", "E", "F", "G"}

\* synths/wave_table.rs, Note::frequency: the base frequency table
wavetable_base_frequency(note) ==
  CASE note = "A" -> Hundredths(44000)
    [] note = "B" -> Hundredths(49388)
    [] note = "C" -> Hundredths(52325)
    [] note = "D" -> Hundredths(58733)
    [] note = "E" -> Hundredths(65925)
    [] note = "F" -> Hundredths(69846)
    [] note = "G" -> Hundredths(78399)

\* synths/wave_table.rs, Note::frequency(self, octave)
wavetable_frequency(note, octave_value) ==
  MulPowi2(wavetable_base_frequency(note), octave_value - 4)

\* ------------------------------------------------------------------------
\* waveforms/sine_wave.rs
\* ------------------------------------------------------------------------

\* calculate_sine(frequency, num_sample) = (2 pi f * (n / SAMPLE_RATE)).sin().
\* The phase f*n is kept exactly, in units of 1/Period of a turn.  An argument
\* of (signed) zero gives that zero back; otherwise the sign is the sign of
\* the half period the phase falls in and the magnitude is Bhaskara's
\* approximation 16x(h-x) / (5h^2 - 4x(h-x)) on the phase quantised to
\* PhaseRes steps per half period, never rounded down to zero off the
\* multiples of pi (an f32 sine of such an argument is not zero).
calculate_sine(freq, num_sample) ==
  LET p    == freq.m * num_sample
      per  == Period * (2 ^ freq.e)
      half == per \div 2
      r    == p % per
      q    == r % half
      x    == q \div (half \div PhaseRes)
      y    == x * (PhaseRes - x)
      mag  == (16 * y * Scale) \div (5 * PhaseRes * PhaseRes - 4 * y)
  IN  IF p = 0 THEN F(freq.s, 0)
      ELSE F(freq.s * (IF r < half THEN 1 ELSE -1),
             IF q = 0 THEN 0 ELSE Max(1, mag))

\* ------------------------------------------------------------------------
\* waveforms/square_wave.rs
\* ------------------------------------------------------------------------

\* sgn(x) = x.signum(): 1.0 if the sign bit is clear (+0.0 included), -1.0 if
\* it is set (-0.0 included).
sgn(x) == IF x.s = 1 THEN One ELSE FNeg(One)

\* ------------------------------------------------------------------------
\* effects/low_pass_filter.rs
\* ------------------------------------------------------------------------

\* LowPassFilter::new()
LowPassFilter_new ==
  [filter_active |-> FALSE, filter_cutoff |-> PosZero,
   filter_resonance |-> PosZero, filtered_value |-> PosZero]

\* LowPassFilter::modify_filter(&mut self): toggles the flag.
modify_filter(flt) == [flt EXCEPT !.filter_active = ~flt.filter_active]

\* LowPassFilter::change_cutoff(&mut self, cutoff)
change_cutoff(flt, cutoff) == [flt EXCEPT !.filter_cutoff = cutoff]

\* LowPassFilter::change_resonance(&mut self, resonance)
change_resonance(flt, resonance) == [flt EXCEPT !.filter_resonance = resonance]

\* Mutant of low_pass_filter: the trailing "+ cutoff" is forgotten.
low_pass_filter_without_cutoff_term(flt) ==
  FMul(FSub(One, flt.filter_cutoff), flt.filtered_value)

\* Mutant of low_pass_filter: the resonance feeds last_output back.
low_pass_filter_with_resonance(flt) ==
  FAdd(FAdd(FMul(FSub(One, flt.filter_cutoff), flt.filtered_value), flt.filter_cutoff),
       FMul(flt.filter_resonance, flt.filtered_value))

\* Mutant of low_pass_filter: the coefficient is clamped to at most 1.0.
low_pass_filter_clamped(flt) ==
  LET c == FAdd(FMul(FSub(One, flt.filter_cutoff), flt.filtered_value), flt.filter_cutoff)
  IN  IF FLt(One, c) THEN One ELSE c

\* Mutant of low_pass_filter: the cutoff term is added twice.
low_pass_filter_cutoff_twice(flt) ==
  FAdd(FAdd(FMul(FSub(One, flt.filter_cutoff), flt.filtered_value), flt.filter_cutoff),
       flt.filter_cutoff)

\* LowPassFilter::low_pass_filter(&self):
\*   ((1.0 - self.filter_cutoff) * self.filtered_value) + self.filter_cutoff
low_pass_filter(flt) ==
  FAdd(FMul(FSub(One, flt.filter_cutoff), flt.filtered_value), flt.filter_cutoff)

\* ------------------------------------------------------------------------
\* The oscillators: waveforms/{sine,square,saw}_wave.rs
\* ------------------------------------------------------------------------

\* SineWave::new / SquareWave::new / SawWave::new.  The event loop sets
\* `filter` on all three kinds (event_loop.rs 231-237), so the record has the
\* field for all three; SineWave::next never reads it.
Oscillator_new(kind, freq) ==
  [kind |-> kind, freq |-> freq, num_sample |-> 0, filter |-> LowPassFilter_new]

\* Mutant of wrapping_add_1: the counter saturates at the maximum.
saturating_add_1(n) == IF n + 1 >= UsizeModulus THEN n ELSE n + 1

\* self.num_sample.wrapping_add(1)
wrapping_add_1(n) == (n + 1) % UsizeModulus

\* The raw saw value of SawWave::next:
\*   2A/pi * atan(tan(pi * f * t / A)),  t = num_sample / SAMPLE_RATE.
\* atan(tan(z)) is z wrapped into (-pi/2, pi/2), so the value is 2A times the
\* phase f*t/A wrapped into (-1/2, 1/2); a (signed) zero argument gives that
\* zero back.
saw_wave_raw(freq, num_sample) ==
  LET p   == freq.m * num_sample * (Scale \div AMPLITUDE.m)
      per == Period * (2 ^ freq.e)
      r   == p % per
      w   == IF 2 * r > per THEN r - per ELSE r
      mag == (IF w < 0 THEN -w ELSE w) \div (per \div (2 * AMPLITUDE.m))
  IN  IF p = 0 THEN F(freq.s, 0)
      ELSE F(freq.s * (IF w < 0 THEN -1 ELSE 1), mag)

\* Mutant of SineWave_next: the value is computed before the counter is
\* incremented.
SineWave_next_post_increment(o) ==
  [osc |-> [o EXCEPT !.num_sample = (o.num_sample + 1) % UsizeModulus],
   sample |-> calculate_sine(o.freq, o.num_sample)]

\* SineWave::next(&mut self): [osc |-> the oscillator after, sample |-> Some(_)]
SineWave_next(o) ==
  LET n         == wrapping_add_1(o.num_sample)
      sine_wave == calculate_sine(o.freq, n)
  IN  [osc |-> [o EXCEPT !.num_sample = n], sample |-> sine_wave]

\* Mutant of SquareWave_next: the filter is applied whatever its flag says.
SquareWave_next_always_filtered(o) ==
  LET n        == (o.num_sample + 1) % UsizeModulus
      filtered == FMul(sgn(calculate_sine(o.freq, n)),
                       FAdd(FMul(FSub(One, o.filter.filter_cutoff), o.filter.filtered_value),
                            o.filter.filter_cutoff))
  IN  [osc |-> [o EXCEPT !.num_sample = n, !.filter.filtered_value = filtered],
       sample |-> filtered]

\* SquareWave::next(&mut self)
SquareWave_next(o) ==
  LET n           == wrapping_add_1(o.num_sample)
      sine_wave   == calculate_sine(o.freq, n)
      square_wave == sgn(sine_wave)
      filtered    == FMul(square_wave, low_pass_filter(o.filter))
  IN  IF o.filter.filter_active
      THEN [osc |-> [o EXCEPT !.num_sample = n, !.filter.filtered_value = filtered],
            sample |-> filtered]
      ELSE [osc |-> [o EXCEPT !.num_sample = n], sample |-> square_wave]

\* SawWave::next(&mut self)
SawWave_next(o) ==
  LET n        == wrapping_add_1(o.num_sample)
      saw_wave == saw_wave_raw(o.freq, n)
      filtered == FMul(saw_wave, low_pass_filter(o.filter))
  IN  IF o.filter.filter_active
      THEN [osc |-> [o EXCEPT !.num_sample = n, !.filter.filtered_value = filtered],
            sample |-> filtered]
      ELSE [osc |-> [o EXCEPT !.num_sample = n], sample |-> saw_wave]

\* ------------------------------------------------------------------------
\* main.rs: the wavetable oscillator
\* ------------------------------------------------------------------------

\* main.rs: let wave_table_size = 64
wave_table_size == 64

\* main.rs: WavetableOscillator::new(44100, wave_table)
wavetable_sample_rate == 44100

\* 2 * pi in thousandths.
TwoPiMilli == 6283

\* a / k for a whole number k, to nearest.
FDivNat(a, k) == Norm(a.s, (a.m + k \div 2) \div k, a.e)

\* The whole number n as an f32.
FromNat(n) == F(1, n * Scale)

\* f32::sin of an angle in radians: the angle is reduced to a turn in
\* thousandths of a radian, the half wave is the approximation
\* 16 x (P - x) / (5 P^2 - 4 x (P - x)) of calculate_sine.
sin_radians(angle) ==
  LET unit  == Scale * (2 ^ angle.e)
      milli == (angle.m \div unit) * 1000 + ((angle.m % unit) * 1000) \div unit
      r     == milli % TwoPiMilli
      half  == (TwoPiMilli + 1) \div 2
      q     == IF r < half THEN r ELSE r - half
      x     == (q * PhaseRes) \div half
      y     == x * (PhaseRes - x)
      mag   == (16 * y * Scale) \div (5 * PhaseRes * PhaseRes - 4 * y)
  IN  F(angle.s * (IF r < half THEN 1 ELSE -1), mag)

\* main.rs, the loop over a in 1..=5: frequency and amplitude of the a-th
\* detuned harmonic (detune_factor 0.25).
wave_table_harmonics ==
  [a \in 1 .. 5 |->
     [frequency |-> FMul(MulPowi2(Hundredths(22000), a),
                         FAdd(One, FMul(Hundredths(25), FromNat(a - 1)))),
      amplitude |-> FDivNat(One, a)]]

\* 2.0 * frequency * n / wave_table_size
wave_table_angle(freq, n) == MulPowi2(FMul(FMul(FromNat(2), freq), FromNat(n)), -6)

\* main.rs, the body of the loop over a: what the a-th harmonic adds to the
\* table's sample n.
wave_table_harmonic(n, a) ==
  FMul(wave_table_harmonics[a].amplitude,
       sin_radians(wave_table_angle(wave_table_harmonics[a].frequency, n)))

\* main.rs, the loop over a in 1..=5 for the table's sample n: sample,
\* 0.0 at first, grows by one harmonic per round; the value after `rounds`.
RECURSIVE wave_table_sample(_, _)
wave_table_sample(n, rounds) ==
  IF rounds = 0 THEN PosZero
  ELSE FAdd(wave_table_sample(n, rounds - 1), wave_table_harmonic(n, rounds))

\* main.rs: the wave table main fills.
wave_table == [n \in 0 .. (wave_table_size - 1) |-> wave_table_sample(n, 5)]

\* WavetableOscillator::new(sample_rate, wave_table)
WavetableOscillator_new(sample_rate) ==
  [kind |-> "WAVETABLE", sample_rate |-> sample_rate, index |-> PosZero,
   index_increment |-> PosZero, filter_cutoff |-> PosZero, filter_resonance |-> PosZero,
   filtered_value |-> PosZero]

\* WavetableOscillator::set_filter_params
set_filter_params(o, cutoff, resonance) ==
  [o EXCEPT !.filter_cutoff = cutoff, !.filter_resonance = resonance]

\* WavetableOscillator::set_frequency
set_frequency(o, freq) ==
  [o EXCEPT !.index_increment = FDivNat(MulPowi2(freq, 6), o.sample_rate)]

\* WavetableOscillator::lerp
lerp(o) ==
  LET unit                   == Scale * (2 ^ o.index.e)
      truncated_index        == o.index.m \div unit
      next_index             == (truncated_index + 1) % wave_table_size
      next_index_weight      == FSub(o.index, FromNat(truncated_index))
      truncated_index_weight == FSub(One, next_index_weight)
  IN  FAdd(FMul(truncated_index_weight, wave_table[truncated_index]),
           FMul(next_index_weight, wave_table[next_index]))

\* index %= wave_table.len() as f32, for an index that is not negative
FRemNat(a, k) == Norm(a.s, a.m % (k * Scale * (2 ^ a.e)), a.e)

\* WavetableOscillator::get_sample, as Iterator::next calls it
get_sample(o) ==
  LET sample_value == lerp(o)
      index        == FRemNat(FAdd(o.index, o.index_increment), wave_table_size)
      filtered     == FAdd(FMul(FSub(One, o.filter_cutoff), o.filtered_value),
                           FMul(o.filter_cutoff, sample_value))
  IN  [osc |-> [o EXCEPT !.index = index, !.filtered_value = filtered],
       sample |-> filtered]

\* Iterator::next through the Box<dyn Source>: the next() of the boxed kind.
Source_next(o) ==
  CASE o.kind = "SQUARE"    -> SquareWave_next(o)
    [] o.kind = "SAW"       -> SawWave_next(o)
    [] o.kind = "SINE"      -> SineWave_next(o)
    [] o.kind = "WAVETABLE" -> get_sample(o)

\* The oscillator o after n calls of next().
RECURSIVE Advance(_, _)
Advance(o, n) == IF n = 0 THEN o ELSE Advance(Source_next(o).osc, n - 1)

\* The n-th sample (n >= 1) of the oscillator o when it is pulled on its own.
NthSample(o, n) == Source_next(Advance(o, n - 1)).sample

\* ------------------------------------------------------------------------
\* The playback envelope and the sink (rodio, as the handlers use it)
\* ------------------------------------------------------------------------

\* waveforms/mod.rs: DURATION
DURATION == Hundredths(29)

\* Duration::from_secs_f32(secs): the f32 becomes a whole number of time
\* units (hundredths of a second here), rounded to nearest.
from_secs_f32(secs) == (secs.m * 100 + Scale \div 2) \div Scale

\* The number of samples take_duration lets through: duration * sample_rate,
\* a partial final sample dropped.
take_duration_samples(duration, sample_rate) == (duration * sample_rate) \div 100

\* synth.take_duration(duration): the oscillator with the number of samples
\* left to take.
take_duration(input, duration) ==
  [input |-> input, remaining |-> take_duration_samples(duration, NoteRate)]

\* source.amplify(factor)
amplify(input, factor) == [input |-> input, factor |-> factor]

\* TakeDuration::next: None once the duration is used up, else the next
\* sample of the oscillator.
TakeDuration_next(t) ==
  IF t.remaining = 0
  THEN [source |-> t, sample |-> [some |-> FALSE, v |-> PosZero]]
  ELSE [source |-> [input |-> Source_next(t.input).osc, remaining |-> t.remaining - 1],
        sample |-> [some |-> TRUE, v |-> Source_next(t.input).sample]]

\* Amplify::next: the sample of the input times the factor.
Amplify_next(a) ==
  LET r == TakeDuration_next(a.input)
  IN  [source |-> [a EXCEPT !.input = r.source],
       sample |-> IF r.sample.some
                  THEN [some |-> TRUE, v |-> FMul(r.sample.v, a.factor)]
                  ELSE r.sample]

\* ------------------------------------------------------------------------
\* state/mod.rs: the State struct and its methods
\* ------------------------------------------------------------------------

\* music_theory: the octave range of the keyboard.
OCTAVE_LOWER_BOUND == 1

OCTAVE_UPPER_BOUND == 8

\* graphics/constants.rs
WAVEFORM_SINE == 0

WAVEFORM_SQUARE == 1

\* c / 1000000 as an f32 (the cutoff step has six decimals), to nearest.
Millionths(c) == F(1, (c * Scale + 500000) \div 1000000)

\* State.filter_cutoff is held in millionths, the unit of its step 0.142857,
\* so that seven steps are told apart from 1.0; every literal it is compared
\* with or changed by is written in that unit.
CutoffLiteral(hundredths) == hundredths * 10000

\* 0.142857
CUTOFF_STEP == 142857

\* State::new()
State_new ==
  [octave |-> 4, waveform |-> "SINE", pressed_key |-> "None",
   waveform_sprite_index |-> WAVEFORM_SINE, filter_cutoff |-> 0, lpf_active |-> 0]

\* State::apply_lpf
apply_lpf(st, sample_value) == FMul(sample_value, Millionths(st.filter_cutoff))

\* Mutant of increase_octave: the octave is raised whatever it is.
increase_octave_unbounded(st) == [st EXCEPT !.octave = st.octave + 1]

\* State::increase_octave
increase_octave(st) ==
  IF st.octave < OCTAVE_UPPER_BOUND THEN [st EXCEPT !.octave = st.octave + 1] ELSE st

\* State::decrease_octave
decrease_octave(st) ==
  IF st.octave > OCTAVE_LOWER_BOUND THEN [st EXCEPT !.octave = st.octave - 1] ELSE st

\* Mutant of xor_1: the flag counts the toggles.
xor_1_counting(n) == n + 1

\* n ^ 1 on a usize: the lowest bit is flipped.
xor_1(n) == IF n % 2 = 0 THEN n + 1 ELSE n - 1

\* State::toggle_lpf
toggle_lpf(st) ==
  [st EXCEPT !.lpf_active = xor_1(st.lpf_active), !.filter_cutoff = 0]

\* Mutant of increase_filter_cutoff: the cutoff is raised while it is at
\* most 1.0.
increase_filter_cutoff_up_to_one(st) ==
  IF st.lpf_active = 1 /\ st.filter_cutoff <= CutoffLiteral(100)
  THEN [st EXCEPT !.filter_cutoff = st.filter_cutoff + CUTOFF_STEP]
  ELSE st

\* State::increase_filter_cutoff
increase_filter_cutoff(st) ==
  IF st.lpf_active = 1 /\ st.filter_cutoff <= CutoffLiteral(90)
  THEN [st EXCEPT !.filter_cutoff = st.filter_cutoff + CUTOFF_STEP]
  ELSE st

\* State::decrease_filter_cutoff
decrease_filter_cutoff(st) ==
  IF st.lpf_active = 1 /\ st.filter_cutoff >= CutoffLiteral(15)
  THEN [st EXCEPT !.filter_cutoff = st.filter_cutoff - CUTOFF_STEP]
  ELSE st

\* State::get_current_octave
get_current_octave(st) == st.octave

\* Mutant of toggle_waveform: the sprite index is left as it is.
toggle_waveform_keeps_sprite(st) ==
  IF st.waveform = "SINE"
  THEN [st EXCEPT !.waveform = "SQUARE"]
  ELSE [st EXCEPT !.waveform = "SINE"]

\* State::toggle_waveform
toggle_waveform(st) ==
  IF st.waveform = "SINE"
  THEN [st EXCEPT !.waveform = "SQUARE", !.waveform_sprite_index = WAVEFORM_SQUARE]
  ELSE [st EXCEPT !.waveform = "SINE", !.waveform_sprite_index = WAVEFORM_SINE]

\* state/utils.rs, draw_filter_cutoff_knob_sprite: the match that picks
\* knob_sprite_index; the arms are tried in order, each range inclusive.
knob_sprite_index(st) ==
  LET v == st.filter_cutoff
      contains(lo, hi) == CutoffLiteral(lo) <= v /\ v <= CutoffLiteral(hi)
  IN  CASE contains(0, 14) -> 0
        [] ~contains(0, 14) /\ contains(14, 28) -> 1
        [] ~contains(14, 28) /\ contains(28, 42) -> 2
        [] ~contains(28, 42) /\ contains(42, 57) -> 3
        [] ~contains(42, 57) /\ contains(57, 71) -> 4
        [] ~contains(57, 71) /\ contains(71, 85) -> 5
        [] ~contains(71, 85) /\ contains(85, 99) -> 6
        [] OTHER -> 7

\* state/utils.rs, get_key_mappings: key, note and position on the keyboard,
\* in the order the keys are tried.
get_key_mappings ==
  << [key |-> "Q",    note |-> "C",      position |-> 1],
     [key |-> "Key2", note |-> "CSharp", position |-> 1],
     [key |-> "W",    note |-> "D",      position |-> 2],
     [key |-> "Key3", note |-> "DSharp", position |-> 2],
     [key |-> "E",    note |-> "E",      position |-> 3],
     [key |-> "R",    note |-> "F",      position |-> 4],
     [key |-> "Key5", note |-> "FSharp", position |-> 4],
     [key |-> "T",    note |-> "G",      position |-> 5],
     [key |-> "Key6", note |-> "GSharp", position |-> 5],
     [key |-> "Y",    note |-> "A",      position |-> 6],
     [key |-> "Key7", note |-> "ASharp", position |-> 6],
     [key |-> "U",    note |-> "B",      position |-> 7] >>

\* state/utils.rs, the synth match of handle_musical_note: the oscillator of
\* the waveform, its frequency the note's frequency passed through apply_lpf.
state_synth(st, note_name) ==
  LET filtered_frequency == apply_lpf(st, frequency(note_name, st.octave))
  IN  Oscillator_new(IF st.waveform = "SQUARE" THEN "SQUARE" ELSE "SINE", filtered_frequency)

\* No direct call of frequency or sgn has been made.
NoProbe == [fn |-> "none", note |-> "C", octave |-> 4, x |-> PosZero, result |-> PosZero]

\* ------------------------------------------------------------------------
\* state/keyboard.rs: the Keyboard drawn on the console
\* ------------------------------------------------------------------------

\* Keyboard::new().  keys_pressed is left out: handle_key_press, the only
\* method that sets a key, is never called.
Keyboard_new == [current_octave |-> 4, current_waveform |-> "SINE"]

\* Keyboard::set_current_octave
set_current_octave(kb, oct) == [kb EXCEPT !.current_octave = oct]

\* Keyboard::set_current_waveform
set_current_waveform(kb, waveform) == [kb EXCEPT !.current_waveform = waveform]

\* impl fmt::Display for Waveform: the name draw_keyboard_layout prints.
Waveform_fmt(waveform) ==
  CASE waveform = "SINE"   -> "Sine"
    [] waveform = "SQUARE" -> "Square"
    [] OTHER               -> "Saw"

\* The match of handle_toggle_waveforms: the waveform after the one given.
toggled_waveform(waveform) ==
  CASE waveform = "SINE"   -> "SQUARE"
    [] waveform = "SQUARE" -> "SAW"
    [] OTHER               -> "SINE"

\* ------------------------------------------------------------------------
\* state/event_loop.rs: the event loop's state and handlers
\* ------------------------------------------------------------------------

VARIABLES
  octave,            \* octave.value
  current_waveform,  \* Option<Waveform>: "NONE" is None
  filter_active,     \* execute_event_loop's local flags and parameters
  filter_cutoff,
  filter_resonance,
  note,              \* the note of the last trigger ("NONE" before the first)
  osc,               \* the oscillator built last (kind "NONE": none yet)
  twin,              \* the same oscillator, given another resonance
  calls,             \* next() calls made on osc since it was built
  before,            \* osc as it was when its last next() was entered
  sample,            \* what the last next() on osc returned
  twin_sample,       \* what the last next() on twin returned
  probe,             \* the last direct call of frequency or sgn
  queue,             \* the sources appended to the sink and not yet played out
  appended,          \* how many sources have been appended to the sink
  last_played,       \* the last sample the sink thread played, and of which note
  ended,             \* the sources that have returned None: id and samples played
  state,             \* the State struct of state/mod.rs
  wavetable,         \* main.rs: whether main runs, its State and its oscillator
  keyboard           \* the Keyboard the event loop draws

vars == <<octave, current_waveform, filter_active, filter_cutoff, filter_resonance,
          note, osc, twin, calls, before, sample, twin_sample, probe,
          queue, appended, last_played, ended, state, wavetable, keyboard>>

loop_vars == <<octave, current_waveform, filter_active, filter_cutoff, filter_resonance>>

osc_vars == <<note, osc, twin, calls, before, sample, twin_sample>>

sink_vars == <<queue, appended, last_played, ended>>

NoSample == [some |-> FALSE, v |-> PosZero]

Some(v) == [some |-> TRUE, v |-> v]

NoOsc == Oscillator_new("NONE", PosZero)

\* Nothing played yet.
NothingPlayed == [id |-> 0, index |-> 0, v |-> PosZero, made |-> NoOsc]

\* The keys execute_event_loop passes to handle_musical_notes.
NoteKeys == {"q", "w", "e", "r", "t", "y", "u"}

\* The key match of handle_musical_notes.
note_of_key(key) ==
  CASE key = "q" -> "A"
    [] key = "w" -> "B"
    [] key = "e" -> "C"
    [] key = "r" -> "D"
    [] key = "t" -> "E"
    [] key = "y" -> "F"
    [] key = "u" -> "G"

\* Mutant of synth: the filter is switched on and set whether or not
\* filter_active is set.
synth_filter_unconditional(waveform, freq, active, cutoff, resonance) ==
  LET kind == IF waveform \in {"SQUARE", "SAW"} THEN waveform ELSE "SINE"
      o    == Oscillator_new(kind, freq)
  IN  [o EXCEPT !.filter =
         change_resonance(change_cutoff(modify_filter(o.filter), cutoff), resonance)]

\* The synth match of handle_musical_notes: the oscillator of the current
\* waveform (Sine for None), with its filter switched on and given the
\* cutoff and the resonance when filter_active is set.
synth(waveform, freq, active, cutoff, resonance) ==
  LET kind == IF waveform \in {"SQUARE", "SAW"} THEN waveform ELSE "SINE"
      o    == Oscillator_new(kind, freq)
  IN  IF active
      THEN [o EXCEPT !.filter =
              change_resonance(change_cutoff(modify_filter(o.filter), cutoff), resonance)]
      ELSE o

\* Values given to change_cutoff and change_resonance by a direct caller.
CutoffValues == {PosZero, Hundredths(50), Hundredths(200)}

ResonanceValues == {PosZero, Hundredths(50)}

\* Frequencies given to the constructors by a direct caller.
ApiFrequencies == {PosZero, Hundredths(44000)}

Kinds == {"SINE", "SQUARE", "SAW"}

\* The resonance of the twin: another value than r.
OtherResonance(r) == CHOOSE r2 \in ResonanceValues : r2 # r

Init ==
  /\ octave = 4
  /\ current_waveform = "NONE"
  /\ filter_active = FALSE
  /\ filter_cutoff = PosZero
  /\ filter_resonance = PosZero
  /\ note = "NONE"
  /\ osc = NoOsc
  /\ twin = NoOsc
  /\ calls = 0
  /\ before = NoOsc
  /\ sample = NoSample
  /\ twin_sample = NoSample
  /\ probe = NoProbe
  /\ queue = <<>>
  /\ appended = 0
  /\ last_played = NothingPlayed
  /\ ended = {}
  /\ state = State_new
  /\ wavetable = [running |-> FALSE, octave |-> 4,
                  oscillator |-> WavetableOscillator_new(wavetable_sample_rate)]
  /\ keyboard = Keyboard_new

\* handle_activate_filter
handle_activate_filter ==
  /\ filter_active' = TRUE
  /\ UNCHANGED <<octave, current_waveform, filter_cutoff, filter_resonance>>
  /\ UNCHANGED osc_vars
  /\ UNCHANGED probe
  /\ UNCHANGED state
  /\ UNCHANGED wavetable
  /\ UNCHANGED keyboard
  /\ UNCHANGED sink_vars

\* effects::FILTER_CUTOFF_LOWER_BOUND, FILTER_CUTOFF_UPPER_BOUND,
\* FILTER_RESONANCE_LOWER_BOUND, FILTER_RESONANCE_UPPER_BOUND.
FILTER_CUTOFF_LOWER_BOUND == Hundredths(11)

FILTER_CUTOFF_UPPER_BOUND == Hundredths(91)

FILTER_RESONANCE_LOWER_BOUND == Hundredths(11)

FILTER_RESONANCE_UPPER_BOUND == Hundredths(91)

\* The 0.1 the cutoff and resonance handlers add and subtract.
FilterStep == Hundredths(10)

\* handle_increase_filter_cutoff
handle_increase_filter_cutoff ==
  /\ filter_cutoff' = IF FLt(filter_cutoff, FILTER_CUTOFF_UPPER_BOUND)
                      THEN FAdd(filter_cutoff, FilterStep) ELSE filter_cutoff
  /\ UNCHANGED <<octave, current_waveform, filter_active, filter_resonance>>
  /\ UNCHANGED osc_vars
  /\ UNCHANGED probe
  /\ UNCHANGED state
  /\ UNCHANGED wavetable
  /\ UNCHANGED keyboard
  /\ UNCHANGED sink_vars

\* handle_reduce_filter_cutoff
handle_reduce_filter_cutoff ==
  /\ filter_cutoff' = IF FLt(FILTER_CUTOFF_LOWER_BOUND, filter_cutoff)
                      THEN FSub(filter_cutoff, FilterStep) ELSE filter_cutoff
  /\ UNCHANGED <<octave, current_waveform, filter_active, filter_resonance>>
  /\ UNCHANGED osc_vars
  /\ UNCHANGED probe
  /\ UNCHANGED state
  /\ UNCHANGED wavetable
  /\ UNCHANGED keyboard
  /\ UNCHANGED sink_vars

\* handle_increase_filter_resonance
handle_increase_filter_resonance ==
  /\ filter_resonance' = IF FLt(filter_resonance, FILTER_RESONANCE_UPPER_BOUND)
                         THEN FAdd(filter_resonance, FilterStep) ELSE filter_resonance
  /\ UNCHANGED <<octave, current_waveform, filter_active, filter_cutoff>>
  /\ UNCHANGED osc_vars
  /\ UNCHANGED probe
  /\ UNCHANGED state
  /\ UNCHANGED wavetable
  /\ UNCHANGED keyboard
  /\ UNCHANGED sink_vars

\* handle_reduce_filter_resonance
handle_reduce_filter_resonance ==
  /\ filter_resonance' = IF FLt(FILTER_RESONANCE_LOWER_BOUND, filter_resonance)
                         THEN FSub(filter_resonance, FilterStep) ELSE filter_resonance
  /\ UNCHANGED <<octave, current_waveform, filter_active, filter_cutoff>>
  /\ UNCHANGED osc_vars
  /\ UNCHANGED probe
  /\ UNCHANGED state
  /\ UNCHANGED wavetable
  /\ UNCHANGED keyboard
  /\ UNCHANGED sink_vars

\* Mutant of handle_toggle_waveforms: the Keyboard is not told.
handle_toggle_waveforms_without_keyboard ==
  /\ current_waveform' = toggled_waveform(current_waveform)
  /\ UNCHANGED keyboard
  /\ UNCHANGED <<octave, filter_active, filter_cutoff, filter_resonance>>
  /\ UNCHANGED osc_vars
  /\ UNCHANGED probe
  /\ UNCHANGED state
  /\ UNCHANGED wavetable
  /\ UNCHANGED sink_vars

\* handle_toggle_waveforms
handle_toggle_waveforms ==
  /\ current_waveform' = toggled_waveform(current_waveform)
  /\ keyboard' = set_current_waveform(keyboard, toggled_waveform(current_waveform))
  /\ UNCHANGED <<octave, filter_active, filter_cutoff, filter_resonance>>
  /\ UNCHANGED osc_vars
  /\ UNCHANGED probe
  /\ UNCHANGED state
  /\ UNCHANGED wavetable
  /\ UNCHANGED sink_vars

\* handle_increase_octave
handle_increase_octave ==
  /\ octave < 4 + OctaveSpan
  /\ octave' = octave + 1
  /\ keyboard' = set_current_octave(keyboard, octave + 1)
  /\ UNCHANGED <<current_waveform, filter_active, filter_cutoff, filter_resonance>>
  /\ UNCHANGED osc_vars
  /\ UNCHANGED probe
  /\ UNCHANGED state
  /\ UNCHANGED wavetable
  /\ UNCHANGED sink_vars

\* handle_reduce_octave
handle_reduce_octave ==
  /\ octave > 4 - OctaveSpan
  /\ octave' = octave - 1
  /\ keyboard' = set_current_octave(keyboard, octave - 1)
  /\ UNCHANGED <<current_waveform, filter_active, filter_cutoff, filter_resonance>>
  /\ UNCHANGED osc_vars
  /\ UNCHANGED probe
  /\ UNCHANGED state
  /\ UNCHANGED wavetable
  /\ UNCHANGED sink_vars

\* handle_musical_notes: builds the oscillator of the note; the sink will pull
\* its samples.
handle_musical_notes ==
  \E key \in NoteKeys :
    LET freq == frequency(note_of_key(key), octave)
    IN  /\ note' = note_of_key(key)
        /\ osc' = synth(current_waveform, freq, filter_active, filter_cutoff, filter_resonance)
        /\ twin' = synth(current_waveform, freq, filter_active, filter_cutoff,
                         OtherResonance(filter_resonance))
        /\ calls' = 0
        /\ before' = NoOsc
        /\ sample' = NoSample
        /\ twin_sample' = NoSample
        /\ UNCHANGED loop_vars
        /\ UNCHANGED probe
        /\ UNCHANGED state
        /\ UNCHANGED wavetable
        /\ UNCHANGED keyboard
        /\ UNCHANGED sink_vars

\* ------------------------------------------------------------------------
\* The oscillators used directly: constructors, the public filter, next()
\* ------------------------------------------------------------------------

\* SineWave::new(freq), SquareWave::new(freq) or SawWave::new(freq)
NewOscillator ==
  \E kind \in Kinds, freq \in ApiFrequencies :
    /\ note' = "NONE"
    /\ osc' = Oscillator_new(kind, freq)
    /\ twin' = Oscillator_new(kind, freq)
    /\ calls' = 0
    /\ before' = NoOsc
    /\ sample' = NoSample
    /\ twin_sample' = NoSample
    /\ UNCHANGED loop_vars
    /\ UNCHANGED probe
    /\ UNCHANGED state
    /\ UNCHANGED wavetable
    /\ UNCHANGED keyboard
    /\ UNCHANGED sink_vars

\* A direct caller configures the oscillator it constructed before it pulls
\* samples.  An oscillator built by handle_musical_notes is boxed and moved
\* into the sink at once: nothing but next() reaches it.
Configurable == osc.kind # "NONE" /\ note = "NONE" /\ calls = 0

\* osc.filter.modify_filter()
ModifyFilter ==
  /\ Configurable
  /\ osc' = [osc EXCEPT !.filter = modify_filter(osc.filter)]
  /\ twin' = [twin EXCEPT !.filter = modify_filter(twin.filter)]
  /\ UNCHANGED <<note, calls, before, sample, twin_sample>>
  /\ UNCHANGED loop_vars
  /\ UNCHANGED probe
  /\ UNCHANGED state
  /\ UNCHANGED wavetable
  /\ UNCHANGED keyboard
  /\ UNCHANGED sink_vars

\* osc.filter.change_cutoff(cutoff)
ChangeCutoff ==
  \E cutoff \in CutoffValues :
    /\ Configurable
    /\ osc' = [osc EXCEPT !.filter = change_cutoff(osc.filter, cutoff)]
    /\ twin' = [twin EXCEPT !.filter = change_cutoff(twin.filter, cutoff)]
    /\ UNCHANGED <<note, calls, before, sample, twin_sample>>
    /\ UNCHANGED loop_vars
    /\ UNCHANGED probe
    /\ UNCHANGED state
    /\ UNCHANGED wavetable
    /\ UNCHANGED keyboard
    /\ UNCHANGED sink_vars

\* osc.filter.change_resonance(resonance); the twin is given another value.
ChangeResonance ==
  \E resonance \in ResonanceValues :
    /\ Configurable
    /\ osc' = [osc EXCEPT !.filter = change_resonance(osc.filter, resonance)]
    /\ twin' = [twin EXCEPT !.filter = change_resonance(twin.filter, OtherResonance(resonance))]
    /\ UNCHANGED <<note, calls, before, sample, twin_sample>>
    /\ UNCHANGED loop_vars
    /\ UNCHANGED probe
    /\ UNCHANGED state
    /\ UNCHANGED wavetable
    /\ UNCHANGED keyboard
    /\ UNCHANGED sink_vars

\* One next() on the oscillator (and on its twin).
NextSample ==
  /\ osc.kind # "NONE"
  /\ calls < MaxCalls
  /\ before' = osc
  /\ osc' = Source_next(osc).osc
  /\ sample' = Some(Source_next(osc).sample)
  /\ twin' = Source_next(twin).osc
  /\ twin_sample' = Some(Source_next(twin).sample)
  /\ calls' = calls + 1
  /\ UNCHANGED note
  /\ UNCHANGED loop_vars
  /\ UNCHANGED probe
  /\ UNCHANGED state
  /\ UNCHANGED wavetable
  /\ UNCHANGED keyboard
  /\ UNCHANGED sink_vars

Next ==
  \/ handle_activate_filter
  \/ handle_toggle_waveforms
  \/ handle_increase_octave
  \/ handle_reduce_octave
  \/ handle_musical_notes
  \/ NewOscillator
  \/ ModifyFilter
  \/ ChangeCutoff
  \/ ChangeResonance
  \/ NextSample

Spec == Init /\ [][Next]_vars

\* The next sample of a source in the sink: of the amplified source of
\* the keyboard revisions, or of the wavetable revision's source, whose
\* convert_samples::<f32>() hands the f32 of take_duration on as it is.
Sink_source_next(source) ==
  IF "factor" \in DOMAIN source THEN Amplify_next(source) ELSE TakeDuration_next(source)

\* ------------------------------------------------------------------------
\* The input loop and the sink thread
\* ------------------------------------------------------------------------

\* Keys pressed while the sink is observed.
SinkKeys == {"q"}

\* Mutant of Sink_append: the new source is played next, ahead of the queue.
Sink_append_front(q, source) == <<source>> \o q

\* sink.append(source): the source goes to the end of the sink's queue.
Sink_append(q, source) == Append(q, source)

\* handle_musical_notes from its key match to sink.append, on the values
\* behind its arguments: the sink with the source of the note appended.
handle_musical_notes_on(sink, id, oct, waveform, active, cutoff, resonance, key) ==
  LET freq   == frequency(note_of_key(key), oct)
      o      == synth(waveform, freq, active, cutoff, resonance)
      source == amplify(take_duration(o, from_secs_f32(DURATION)), AMPLITUDE)
  IN  Sink_append(sink, [id |-> id, source |-> source, made |-> o, played |-> 0])

\* Mutant of handle_musical_notes_sink: one oscillator is kept across
\* triggers, so a note starts at the counter the note queued before it has
\* reached.
handle_musical_notes_sink_shared_counter ==
  \E key \in SinkKeys :
    LET freq   == frequency(note_of_key(key), octave)
        o      == synth(current_waveform, freq, filter_active, filter_cutoff, filter_resonance)
        shared == IF queue = <<>> THEN o
                  ELSE [o EXCEPT !.num_sample = queue[Len(queue)].source.input.input.num_sample]
        source == amplify(take_duration(shared, from_secs_f32(DURATION)), AMPLITUDE)
    IN  /\ appended < MaxTriggers
        /\ appended' = appended + 1
        /\ queue' = Sink_append(queue, [id |-> appended + 1, source |-> source,
                                        made |-> o, played |-> 0])
        /\ UNCHANGED <<last_played, ended>>
        /\ UNCHANGED loop_vars
        /\ UNCHANGED osc_vars
        /\ UNCHANGED probe
        /\ UNCHANGED state
        /\ UNCHANGED wavetable
        /\ UNCHANGED keyboard

\* Mutant of handle_musical_notes_sink: the source is appended without
\* amplify(AMPLITUDE).
handle_musical_notes_sink_unamplified ==
  \E key \in SinkKeys :
    LET freq   == frequency(note_of_key(key), octave)
        o      == synth(current_waveform, freq, filter_active, filter_cutoff, filter_resonance)
        source == amplify(take_duration(o, from_secs_f32(DURATION)), One)
    IN  /\ appended < MaxTriggers
        /\ appended' = appended + 1
        /\ queue' = Sink_append(queue, [id |-> appended + 1, source |-> source,
                                        made |-> o, played |-> 0])
        /\ UNCHANGED <<last_played, ended>>
        /\ UNCHANGED loop_vars
        /\ UNCHANGED osc_vars
        /\ UNCHANGED probe
        /\ UNCHANGED state
        /\ UNCHANGED wavetable
        /\ UNCHANGED keyboard

\* handle_musical_notes, with the sink it appends to in view: the oscillator
\* of the note (synth), limited to DURATION and amplified by AMPLITUDE, is
\* appended to the sink.  id, made (the oscillator as built) and played are
\* bookkeeping of the model.
handle_musical_notes_sink ==
  \E key \in SinkKeys :
    /\ appended < MaxTriggers
    /\ appended' = appended + 1
    /\ queue' = handle_musical_notes_on(queue, appended + 1, octave, current_waveform,
                                        filter_active, filter_cutoff, filter_resonance, key)
    /\ UNCHANGED <<last_played, ended>>
    /\ UNCHANGED loop_vars
    /\ UNCHANGED osc_vars
    /\ UNCHANGED probe
    /\ UNCHANGED state
    /\ UNCHANGED wavetable
    /\ UNCHANGED keyboard

\* The sink thread asks the source at the head of the queue for a sample:
\* it plays the sample, or drops the source when it returns None.
SinkPull ==
  /\ queue # <<>>
  /\ LET head == Head(queue)
         r    == Sink_source_next(head.source)
     IN  IF r.sample.some
         THEN /\ queue' = [queue EXCEPT ![1] = [head EXCEPT !.source = r.source,
                                                            !.played = head.played + 1]]
              /\ last_played' = [id |-> head.id, index |-> head.played + 1,
                                 v |-> r.sample.v, made |-> head.made]
              /\ UNCHANGED ended
         ELSE /\ queue' = Tail(queue)
              /\ ended' = ended \cup {[id |-> head.id, played |-> head.played]}
              /\ UNCHANGED last_played
  /\ UNCHANGED appended
  /\ UNCHANGED loop_vars
  /\ UNCHANGED osc_vars
  /\ UNCHANGED probe
  /\ UNCHANGED state
  /\ UNCHANGED wavetable
  /\ UNCHANGED keyboard

SinkNext ==
  \/ handle_activate_filter
  \/ handle_toggle_waveforms
  \/ handle_increase_octave
  \/ handle_reduce_octave
  \/ handle_musical_notes_sink
  \/ SinkPull

SpecSink == Init /\ [][SinkNext]_vars

\* The sink thread runs whenever it has something to play.
SpecSinkFair == SpecSink /\ WF_vars(SinkPull)

\* The filter handlers of the event loop, called in any order.
FilterNext ==
  \/ handle_activate_filter
  \/ handle_increase_filter_cutoff
  \/ handle_reduce_filter_cutoff
  \/ handle_increase_filter_resonance
  \/ handle_reduce_filter_resonance

SpecFilter == Init /\ [][FilterNext]_vars

\* ------------------------------------------------------------------------
\* state/utils.rs: the key handler of the State revision, and the sink thread
\* ------------------------------------------------------------------------

\* Keys that can be down when handle_key_presses looks: two note keys and
\* the control keys.
PressedKeys == {"Q", "Key2", "F", "F1", "F2", "F3", "F4"}

\* handle_musical_note(state, sink, note): the sink after the call.  id, made
\* and played are bookkeeping of the model.
handle_musical_note(st, sink, note_name, id) ==
  LET o      == state_synth(st, note_name)
      source == amplify(take_duration(o, from_secs_f32(DURATION)), AMPLITUDE)
  IN  Sink_append(sink, [id |-> id, source |-> source, made |-> o, played |-> 0])

\* The control keys of handle_key_presses, tried one after another once no
\* note key was found down.
control_keys(st, pressed) ==
  LET s1 == IF "F" \in pressed THEN toggle_waveform(st) ELSE st
      s2 == IF "F2" \in pressed /\ get_current_octave(s1) < OCTAVE_UPPER_BOUND
            THEN increase_octave(s1) ELSE s1
      s3 == IF "F1" \in pressed /\ get_current_octave(s2) > OCTAVE_LOWER_BOUND
            THEN decrease_octave(s2) ELSE s2
      s4 == IF "F4" \in pressed THEN increase_filter_cutoff(s3) ELSE s3
  IN  IF "F3" \in pressed THEN decrease_filter_cutoff(s4) ELSE s4

\* Mutant of handle_key_presses_on: the call does not return after the note
\* and goes on to the control keys.
handle_key_presses_on_without_return(st, sink, pressed, id) ==
  LET hits == {i \in 1 .. Len(get_key_mappings) : get_key_mappings[i].key \in pressed}
  IN  IF hits # {}
      THEN LET first == get_key_mappings[CHOOSE i \in hits : \A j \in hits : i <= j]
           IN  [state |-> control_keys([st EXCEPT !.pressed_key =
                                          [key |-> first.key, note |-> first.note]],
                                       pressed),
                sink  |-> handle_musical_note(st, sink, first.note, id)]
      ELSE [state |-> control_keys(st, pressed), sink |-> sink]

\* handle_key_presses(state, window, sink) on the values behind its
\* arguments, `pressed` being the keys window.is_key_pressed reports: the
\* State and the sink after the call.  The first note key found down, in the
\* order of get_key_mappings, plays its note, is recorded in pressed_key, and
\* the call returns; with no note key down the control keys are handled.
handle_key_presses_on(st, sink, pressed, id) ==
  LET hits == {i \in 1 .. Len(get_key_mappings) : get_key_mappings[i].key \in pressed}
  IN  IF hits # {}
      THEN LET first == get_key_mappings[CHOOSE i \in hits : \A j \in hits : i <= j]
           IN  [state |-> [st EXCEPT !.pressed_key =
                             [key |-> first.key, note |-> first.note]],
                sink  |-> handle_musical_note(st, sink, first.note, id)]
      ELSE [state |-> control_keys(st, pressed), sink |-> sink]

\* Mutant of handle_key_presses: a note is appended only once the sink has
\* played out what it holds.
handle_key_presses_waits_for_sink ==
  \E pressed \in SUBSET PressedKeys :
    LET hits == {i \in 1 .. Len(get_key_mappings) : get_key_mappings[i].key \in pressed}
    IN  /\ IF hits # {}
           THEN LET first == get_key_mappings[CHOOSE i \in hits : \A j \in hits : i <= j]
                IN  /\ appended < MaxTriggers
                    /\ queue = <<>>
                    /\ queue' = handle_musical_note(state, queue, first.note, appended + 1)
                    /\ appended' = appended + 1
                    /\ state' = [state EXCEPT !.pressed_key =
                                   [key |-> first.key, note |-> first.note]]
           ELSE /\ state' = control_keys(state, pressed)
                /\ UNCHANGED <<queue, appended>>
        /\ UNCHANGED <<last_played, ended>>
        /\ UNCHANGED loop_vars
        /\ UNCHANGED osc_vars
        /\ UNCHANGED probe
        /\ UNCHANGED wavetable
        /\ UNCHANGED keyboard

\* handle_key_presses(state, window, sink): the first note key found down, in
\* the order of get_key_mappings, plays its note, is recorded in pressed_key,
\* and the call returns; with no note key down the control keys are handled.
handle_key_presses ==
  \E pressed \in SUBSET PressedKeys :
    LET after == handle_key_presses_on(state, queue, pressed, appended + 1)
    IN  /\ Len(after.sink) > Len(queue) => appended < MaxTriggers
        /\ state' = after.state
        /\ queue' = after.sink
        /\ appended' = appended + Len(after.sink) - Len(queue)
        /\ UNCHANGED <<last_played, ended>>
        /\ UNCHANGED loop_vars
        /\ UNCHANGED osc_vars
        /\ UNCHANGED probe
        /\ UNCHANGED wavetable
        /\ UNCHANGED keyboard

StateNext == handle_key_presses \/ SinkPull

SpecState == Init /\ [][StateNext]_vars

\* The sink thread runs whenever it has something to play.
SpecStateFair == SpecState /\ WF_vars(SinkPull)

\* Keys reported down in a direct call of handle_key_presses: three note
\* keys, the first two and the last of get_key_mappings, and the control keys.
DirectPressedKeys == {"Q", "Key2", "U", "F", "F1", "F2", "F3", "F4"}

\* States handle_key_presses is called on directly: the initial one, and
\* ones with the other waveform, an octave at a bound, and the LPF on with
\* the cutoff raised.
KeyStates ==
  { State_new,
    toggle_waveform(decrease_octave(State_new)),
    increase_filter_cutoff(increase_filter_cutoff(toggle_lpf(State_new))),
    [State_new EXCEPT !.octave = OCTAVE_UPPER_BOUND,
                      !.pressed_key = [key |-> "U", note |-> "B"]] }

\* handle_key_presses is called with any set of keys down.
CallHandleKeyPresses ==
  \E pressed \in SUBSET DirectPressedKeys, st \in KeyStates :
    /\ probe' = [fn |-> "handle_key_presses", pressed |-> pressed, before |-> st,
                 result |-> handle_key_presses_on(st, <<>>, pressed, 1)]
    /\ UNCHANGED loop_vars
    /\ UNCHANGED osc_vars
    /\ UNCHANGED sink_vars
    /\ UNCHANGED state
    /\ UNCHANGED wavetable
    /\ UNCHANGED keyboard

SpecKeys == Init /\ [][CallHandleKeyPresses]_vars

\* ------------------------------------------------------------------------
\* state/mod.rs: the methods of State called one at a time
\* ------------------------------------------------------------------------

\* No method of State has been called.
NoStateCall == [op |-> "none", before |-> State_new]

\* A method of State is called on the State: probe keeps the method, the
\* State it was called on, and the same of the call before it.
StateCall(op, after) ==
  /\ state' = after
  /\ probe' = [fn |-> "State", op |-> op, before |-> state,
               earlier |-> IF probe.fn = "State"
                           THEN [op |-> probe.op, before |-> probe.before]
                           ELSE NoStateCall]
  /\ UNCHANGED loop_vars
  /\ UNCHANGED osc_vars
  /\ UNCHANGED sink_vars
  /\ UNCHANGED wavetable
  /\ UNCHANGED keyboard

State_increase_octave == StateCall("increase_octave", increase_octave(state))

State_decrease_octave == StateCall("decrease_octave", decrease_octave(state))

State_toggle_lpf == StateCall("toggle_lpf", toggle_lpf(state))

State_increase_filter_cutoff ==
  StateCall("increase_filter_cutoff", increase_filter_cutoff(state))

State_decrease_filter_cutoff ==
  StateCall("decrease_filter_cutoff", decrease_filter_cutoff(state))

State_toggle_waveform == StateCall("toggle_waveform", toggle_waveform(state))

StateApiNext ==
  \/ State_increase_octave
  \/ State_decrease_octave
  \/ State_toggle_lpf
  \/ State_increase_filter_cutoff
  \/ State_decrease_filter_cutoff
  \/ State_toggle_waveform

SpecStateApi == Init /\ [][StateApiNext]_vars

\* ------------------------------------------------------------------------
\* graphics/sprites.rs (and graphics/sprite.rs, the same code): draw_sprite
\* ------------------------------------------------------------------------

\* A u32 ARGB pixel is held as its four bytes: a is (pixel >> 24) & 0xFF,
\* r is (pixel >> 16) & 0xFF, g is (pixel >> 8) & 0xFF, b is pixel & 0xFF.
Pixel(a, r, g, b) == [a |-> a, r |-> r, g |-> g, b |-> b]

\* One colour channel of blended_r / blended_g / blended_b:
\*   fg * sprite_alpha / 255 + bg * (255 - sprite_alpha) / 255,  on u32.
blended_channel(fg, bg, sprite_alpha) ==
  (fg * sprite_alpha) \div 255 + (bg * (255 - sprite_alpha)) \div 255

\* blended_pixel: 0xFF000000 | (r & 0xFF) << 16 | (g & 0xFF) << 8 | (b & 0xFF)
blended_pixel(sprite_pixel, window_pixel) ==
  Pixel(255,
        blended_channel(sprite_pixel.r, window_pixel.r, sprite_pixel.a) % 256,
        blended_channel(sprite_pixel.g, window_pixel.g, sprite_pixel.a) % 256,
        blended_channel(sprite_pixel.b, window_pixel.b, sprite_pixel.a) % 256)

\* The body of draw_sprite's loops for the sprite pixel at (row, col).
draw_sprite_pixel(x, y, sprite, window_buffer, window_width, row, col) ==
  LET sprite_pixel_index == row * sprite.width + col
      window_pixel_index == (y + row) * window_width + (x + col)
      sprite_pixel       == sprite.data[sprite_pixel_index + 1]
  IN  IF window_pixel_index < Len(window_buffer) /\ sprite_pixel.a > 0
      THEN [window_buffer EXCEPT ![window_pixel_index + 1] =
              blended_pixel(sprite_pixel, window_buffer[window_pixel_index + 1])]
      ELSE window_buffer

\* draw_sprite: the loops over row and col, as a count of the sprite pixels
\* still to draw.
RECURSIVE draw_sprite_from(_, _, _, _, _, _)
draw_sprite_from(x, y, sprite, window_buffer, window_width, done) ==
  IF done = sprite.width * sprite.height
  THEN window_buffer
  ELSE draw_sprite_from(x, y, sprite,
                        draw_sprite_pixel(x, y, sprite, window_buffer, window_width,
                                          done \div sprite.width, done % sprite.width),
                        window_width, done + 1)

draw_sprite(x, y, sprite, window_buffer, window_width) ==
  draw_sprite_from(x, y, sprite, window_buffer, window_width, 0)

\* Colours and alpha values of the pixels drawn and drawn over.
SpriteAlphas == {0, 1, 128, 255}

SpriteColours == {<<0, 0, 0>>, <<1, 1, 1>>, <<255, 0, 128>>, <<255, 255, 255>>}

WindowColours == {<<0, 0, 0>>, <<1, 1, 1>>, <<0, 255, 127>>, <<255, 255, 255>>}

\* draw_sprite is called with a sprite of one column and two rows on a
\* window of one column and two rows, at row 0, 1 or 2 (so that the sprite
\* lies in the window, half in it, or below it).
CallDrawSprite ==
  \E alpha \in SpriteAlphas, c \in SpriteColours, w1 \in WindowColours,
     w2 \in WindowColours, y \in 0 .. 2 :
    LET sprite == [width |-> 1, height |-> 2,
                   data |-> << Pixel(alpha, c[1], c[2], c[3]),
                               Pixel(255 - alpha, c[3], c[2], c[1]) >>]
        window_buffer == << Pixel(255, w1[1], w1[2], w1[3]),
                            Pixel(255, w2[1], w2[2], w2[3]) >>
    IN  /\ probe' = [fn |-> "draw_sprite", y |-> y, sprite |-> sprite,
                     window_buffer |-> window_buffer,
                     result |-> draw_sprite(0, y, sprite, window_buffer, 1)]
        /\ UNCHANGED loop_vars
        /\ UNCHANGED osc_vars
        /\ UNCHANGED sink_vars
        /\ UNCHANGED state
        /\ UNCHANGED wavetable
        /\ UNCHANGED keyboard

SpecSprite == Init /\ [][CallDrawSprite]_vars

\* ------------------------------------------------------------------------
\* main.rs: the wavetable revision, which clones one oscillator per note
\* ------------------------------------------------------------------------

\* Values rand::random::<f32>() gives for the cutoff of a note.
RandomCutoffs == {PosZero, Hundredths(50)}

\* The value rand::random::<f32>() gives for the resonance of a note.
RandomResonances == {Hundredths(25)}

\* main() up to its loop: the State at octave 4 and the oscillator, set to A
\* and to the filter parameters 0.1, 0.1.
main_start ==
  /\ Init
  /\ wavetable' = [running |-> TRUE, octave |-> 4,
                   oscillator |->
                     set_filter_params(
                       set_frequency(WavetableOscillator_new(wavetable_sample_rate),
                                     wavetable_frequency("A", 4)),
                       Hundredths(10), Hundredths(10))]
  /\ UNCHANGED loop_vars
  /\ UNCHANGED osc_vars
  /\ UNCHANGED probe
  /\ UNCHANGED sink_vars
  /\ UNCHANGED state
  /\ UNCHANGED keyboard

\* Mutant of main_note_key: the sink plays the long-lived oscillator itself,
\* which so has moved on by a note's samples when the next note clones it.
main_note_key_plays_original ==
  \E key \in SinkKeys, cutoff \in RandomCutoffs, resonance \in RandomResonances :
    LET tuned  == set_filter_params(
                    set_frequency(wavetable.oscillator,
                                  wavetable_frequency(note_of_key(key), wavetable.octave)),
                    cutoff, resonance)
        source == take_duration(tuned, from_secs_f32(Hundredths(25)))
    IN  /\ wavetable.running
        /\ appended < MaxTriggers
        /\ appended' = appended + 1
        /\ wavetable' = [wavetable EXCEPT !.oscillator = Advance(tuned, source.remaining)]
        /\ queue' = Sink_append(queue, [id |-> appended + 1, source |-> source,
                                        made |-> tuned, played |-> 0])
        /\ UNCHANGED <<last_played, ended>>
        /\ UNCHANGED loop_vars
        /\ UNCHANGED osc_vars
        /\ UNCHANGED probe
        /\ UNCHANGED state
        /\ UNCHANGED keyboard

\* main(), a note key: the oscillator is set to the note's frequency and to
\* random filter parameters, and a clone of it, limited to 0.25 s, is
\* appended to the sink.
main_note_key ==
  \E key \in SinkKeys, cutoff \in RandomCutoffs, resonance \in RandomResonances :
    LET tuned  == set_filter_params(
                    set_frequency(wavetable.oscillator,
                                  wavetable_frequency(note_of_key(key), wavetable.octave)),
                    cutoff, resonance)
        cloned_oscillator == tuned
        source == take_duration(cloned_oscillator, from_secs_f32(Hundredths(25)))
    IN  /\ wavetable.running
        /\ appended < MaxTriggers
        /\ appended' = appended + 1
        /\ wavetable' = [wavetable EXCEPT !.oscillator = tuned]
        /\ queue' = Sink_append(queue, [id |-> appended + 1, source |-> source,
                                        made |-> cloned_oscillator, played |-> 0])
        /\ UNCHANGED <<last_played, ended>>
        /\ UNCHANGED loop_vars
        /\ UNCHANGED osc_vars
        /\ UNCHANGED probe
        /\ UNCHANGED state
        /\ UNCHANGED keyboard

\* main(), key 'o': the octave goes down by one
main_reduce_octave ==
  /\ wavetable.running
  /\ wavetable.octave > 4 - OctaveSpan
  /\ wavetable' = [wavetable EXCEPT !.octave = wavetable.octave - 1]
  /\ UNCHANGED loop_vars
  /\ UNCHANGED osc_vars
  /\ UNCHANGED probe
  /\ UNCHANGED sink_vars
  /\ UNCHANGED state
  /\ UNCHANGED keyboard

\* main(), key 'p': the octave goes up by one
main_increase_octave ==
  /\ wavetable.running
  /\ wavetable.octave < 4 + OctaveSpan
  /\ wavetable' = [wavetable EXCEPT !.octave = wavetable.octave + 1]
  /\ UNCHANGED loop_vars
  /\ UNCHANGED osc_vars
  /\ UNCHANGED probe
  /\ UNCHANGED sink_vars
  /\ UNCHANGED state
  /\ UNCHANGED keyboard

\* Either revision runs: the keyboard revision of execute_event_loop, or,
\* once main has started, the wavetable revision; the sink thread serves both.
TriggersNext ==
  \/ ~wavetable.running /\ handle_activate_filter
  \/ ~wavetable.running /\ handle_toggle_waveforms
  \/ ~wavetable.running /\ handle_increase_octave
  \/ ~wavetable.running /\ handle_reduce_octave
  \/ ~wavetable.running /\ handle_musical_notes_sink
  \/ main_start
  \/ main_note_key
  \/ main_reduce_octave
  \/ main_increase_octave
  \/ SinkPull

SpecTriggers == Init /\ [][TriggersNext]_vars

\* ------------------------------------------------------------------------
\* The functions on their own: frequency and sgn applied to drawn inputs
\* ------------------------------------------------------------------------

\* Octaves the frequency table is probed at.
ProbeOctaves == (4 - 4) .. (4 + 4)

\* Values sgn is probed at: both zeros and values on either side.
ProbeValues == {PosZero, NegZero, F(1, 1), F(-1, 1), Hundredths(50), Hundredths(-50), One, FNeg(One)}

\* note.frequency(octave) called with any note and octave
CallFrequency ==
  \E n \in Note, o \in ProbeOctaves :
    /\ probe' = [fn |-> "frequency", note |-> n, octave |-> o, x |-> PosZero,
                 result |-> frequency(n, o)]
    /\ UNCHANGED loop_vars
    /\ UNCHANGED osc_vars
    /\ UNCHANGED sink_vars
    /\ UNCHANGED state
    /\ UNCHANGED wavetable
    /\ UNCHANGED keyboard

\* sgn(x) called with any value
CallSgn ==
  \E x \in ProbeValues :
    /\ probe' = [fn |-> "sgn", note |-> "C", octave |-> 4, x |-> x, result |-> sgn(x)]
    /\ UNCHANGED loop_vars
    /\ UNCHANGED osc_vars
    /\ UNCHANGED sink_vars
    /\ UNCHANGED state
    /\ UNCHANGED wavetable
    /\ UNCHANGED keyboard

\* Note::frequency of the wavetable revision called with any note and octave
CallWavetableFrequency ==
  \E n \in WavetableNote, o \in ProbeOctaves :
    /\ probe' = [fn |-> "wavetable_frequency", note |-> n, octave |-> o, x |-> PosZero,
                 result |-> wavetable_frequency(n, o)]
    /\ UNCHANGED loop_vars
    /\ UNCHANGED osc_vars
    /\ UNCHANGED sink_vars
    /\ UNCHANGED state
    /\ UNCHANGED wavetable
    /\ UNCHANGED keyboard

\* Two oscillators of one kind and frequency are constructed, each is given
\* a cutoff and a resonance with its filter left off, and each is asked for
\* its samples up to position n.
CallNextOnTwo ==
  \E kind \in Kinds, freq \in ApiFrequencies, n \in 1 .. MaxCalls,
     c1 \in CutoffValues, c2 \in CutoffValues :
    LET fresh == Oscillator_new(kind, freq)
        a == [fresh EXCEPT !.filter = change_cutoff(fresh.filter, c1)]
        b == [fresh EXCEPT !.filter =
                change_resonance(change_cutoff(fresh.filter, c2), OtherResonance(PosZero))]
    IN  /\ probe' = [fn |-> "next", note |-> "C", octave |-> 4, x |-> freq,
                     result |-> NthSample(a, n), first |-> a, second |-> b,
                     position |-> n, second_result |-> NthSample(b, n)]
        /\ UNCHANGED loop_vars
        /\ UNCHANGED osc_vars
        /\ UNCHANGED sink_vars
        /\ UNCHANGED state
        /\ UNCHANGED wavetable
        /\ UNCHANGED keyboard

\* Keys, octaves and waveforms handle_musical_notes is called with directly.
DirectKeys == {"q", "e"}

DirectOctaves == {4, 5}

DirectWaveforms == {"NONE", "SINE", "SQUARE", "SAW"}

\* A sink holding the source of one earlier note.
OneNoteSink ==
  handle_musical_notes_on(<<>>, 1, 4, "NONE", FALSE, PosZero, PosZero, "q")

\* handle_musical_notes is called with a sink that is empty or holds one
\* source, and with any waveform, filter flag, cutoff and resonance.
CallHandleMusicalNotes ==
  \E key \in DirectKeys, oct \in DirectOctaves, waveform \in DirectWaveforms,
     active \in BOOLEAN, cutoff \in CutoffValues, resonance \in ResonanceValues,
     sink \in {<<>>, OneNoteSink} :
    /\ probe' = [fn |-> "handle_musical_notes", note |-> note_of_key(key),
                 octave |-> oct, x |-> cutoff, resonance |-> resonance,
                 waveform |-> waveform, active |-> active, sink |-> sink,
                 result |-> handle_musical_notes_on(sink, Len(sink) + 1, oct, waveform,
                                                    active, cutoff, resonance, key)]
    /\ UNCHANGED loop_vars
    /\ UNCHANGED osc_vars
    /\ UNCHANGED sink_vars
    /\ UNCHANGED state
    /\ UNCHANGED wavetable
    /\ UNCHANGED keyboard

FnNext ==
  \/ CallFrequency
  \/ CallWavetableFrequency
  \/ CallSgn
  \/ CallNextOnTwo
  \/ CallHandleMusicalNotes

SpecFn == Init /\ [][FnNext]_vars

\* ------------------------------------------------------------------------
\* Claims
\* ------------------------------------------------------------------------

\* The last step on osc was a next() (calls counts them since construction).
Pulled == calls >= 1 /\ sample.some

\* The unfiltered waveform value of an oscillator kind at a sample index.
RawWave(kind, freq, n) ==
  CASE kind = "SQUARE" -> sgn(calculate_sine(freq, n))
    [] kind = "SAW"    -> saw_wave_raw(freq, n)
    [] OTHER           -> calculate_sine(freq, n)

\* The mathematical sign: 1.0 above zero, -1.0 below zero, 0.0 at zero.
Sign3(x) == IF x.m = 0 THEN PosZero ELSE IF x.s = 1 THEN One ELSE FNeg(One)

\* C1: with the filter of a Square or Saw oscillator active, next() returns
\* raw * ((1 - cutoff) * last_output + cutoff), last_output being what the
\* previous call stored (0.0 on a fresh filter), and stores the returned value
\* as the new last_output; the coefficient is a function of the cutoff and
\* last_output alone.
C1_FilterRecurrence ==
  /\ (osc.kind \in {"SQUARE", "SAW"} /\ calls = 0) => osc.filter.filtered_value = PosZero
  /\ (Pulled /\ osc.kind \in {"SQUARE", "SAW"} /\ before.filter.filter_active) =>
       LET raw         == RawWave(before.kind, before.freq, osc.num_sample)
           cutoff      == before.filter.filter_cutoff
           last_output == before.filter.filtered_value
           coefficient == FAdd(FMul(FSub(One, cutoff), last_output), cutoff)
       IN  /\ sample.v = FMul(raw, coefficient)
           /\ osc.filter.filtered_value = sample.v
           /\ (calls = 1 => last_output = PosZero)

\* C1's case: a filtered Square or Saw oscillator, past its first sample, whose
\* filter remembers a non-zero last_output and returns a non-zero sample.
C1_Witness ==
  /\ Pulled /\ calls >= 2
  /\ osc.kind \in {"SQUARE", "SAW"}
  /\ before.filter.filter_active
  /\ before.filter.filter_cutoff = Hundredths(50)
  /\ before.filter.filtered_value.m # 0
  /\ sample.v.m # 0
  /\ sample.v # before.filter.filtered_value

\* C2: with the filter inactive, next() returns the raw waveform value of the
\* sample index and leaves the filter (filtered_value, cutoff, resonance,
\* flag) as it was, whatever cutoff and resonance the filter holds.
C2_InactiveFilterIsRaw ==
  (Pulled /\ ~before.filter.filter_active) =>
     /\ sample.v = RawWave(before.kind, before.freq, osc.num_sample)
     /\ osc.filter = before.filter

\* C2's case: an inactive filter holding a non-zero cutoff and resonance on a
\* Square oscillator that has returned a sample.
C2_Witness ==
  /\ Pulled
  /\ osc.kind = "SQUARE"
  /\ ~before.filter.filter_active
  /\ before.filter.filter_cutoff.m # 0
  /\ before.filter.filter_resonance.m # 0
  /\ sample.v = One

\* C3: for every waveform kind, a fresh oscillator whose filter is active
\* with cutoff 0 returns 0.0 as its first sample.
C3_FirstFilteredSampleZero ==
  (Pulled /\ calls = 1 /\ before.filter.filter_active
     /\ FEq(before.filter.filter_cutoff, PosZero)
     /\ FEq(before.filter.filtered_value, PosZero)) =>
    FEq(sample.v, PosZero)

\* C4: the resonance never influences the audio: an oscillator and its twin,
\* alike in everything but the resonance, return the same sample at every
\* index and hold the same last_output after every step.
C4_ResonanceIgnored ==
  /\ twin.kind = osc.kind /\ twin.freq = osc.freq /\ twin.num_sample = osc.num_sample
  /\ twin.filter.filter_active = osc.filter.filter_active
  /\ twin.filter.filter_cutoff = osc.filter.filter_cutoff
  /\ twin_sample = sample
  /\ twin.filter.filtered_value = osc.filter.filtered_value

\* C4's case: two filtered oscillators of different resonance, several samples
\* in, with the filter's memory in use.
C4_Witness ==
  /\ Pulled /\ calls >= 2
  /\ osc.kind = "SAW"
  /\ osc.filter.filter_active
  /\ osc.filter.filter_cutoff.m # 0
  /\ twin.filter.filter_resonance # osc.filter.filter_resonance
  /\ osc.filter.filtered_value.m # 0

\* C5: the filtered output is not confined to [-1, 1]: with a cutoff above 1
\* (change_cutoff accepts it) the first sample of a fresh Square oscillator,
\* whose raw sample lies in [-1, 1], has a magnitude above 1.
C5_FilterAmplifies ==
  (Pulled /\ calls = 1 /\ osc.kind = "SQUARE" /\ before.filter.filter_active
     /\ FLt(One, before.filter.filter_cutoff)) =>
    /\ ~FLt(One, FAbs(RawWave("SQUARE", before.freq, osc.num_sample)))
    /\ FLt(One, FAbs(sample.v))

\* C5's case: cutoff 2.0 on a Square oscillator returns a sample of magnitude 2.
C5_Witness ==
  /\ Pulled /\ calls = 1
  /\ osc.kind = "SQUARE"
  /\ before.filter.filter_active
  /\ before.filter.filter_cutoff = Hundredths(200)
  /\ FAbs(sample.v) = Hundredths(200)

\* C6: sgn returns +1.0 above zero, -1.0 below zero and 0.0 at exactly zero.
C6_SgnThreeValued ==
  probe.fn = "sgn" => probe.result = Sign3(probe.x)

\* C7: every sample of the (unfiltered) Square oscillator is one of -1.0, 0.0
\* and 1.0 and equals the sign of the sine sample of the same frequency and
\* index.
C7_SquareIsSignOfSine ==
  (Pulled /\ osc.kind = "SQUARE" /\ ~before.filter.filter_active) =>
    /\ sample.v \in {FNeg(One), PosZero, NegZero, One}
    /\ FEq(sample.v, Sign3(calculate_sine(osc.freq, osc.num_sample)))

C9_CounterWraps ==
  [][/\ calls' = calls + 1 =>
          /\ osc'.num_sample = (osc.num_sample + 1) % UsizeModulus
          /\ (osc.num_sample = UsizeModulus - 1 => osc'.num_sample = 0)
          /\ sample'.some
     /\ calls' = calls => osc'.num_sample = osc.num_sample
     /\ calls' \in {calls, calls + 1} \/ (calls' = 0 /\ osc'.num_sample = 0)]_vars

\* C9's case: the call made at the maximum counter value has returned a sample
\* and left the counter at 0.
C9_Witness ==
  /\ Pulled
  /\ before.num_sample = UsizeModulus - 1
  /\ osc.num_sample = 0
  /\ calls = UsizeModulus

\* The base frequencies as published: C=261.63 ... B=493.88 (in 1/100 Hz).
PublishedCentiHz ==
  [C |-> 26163, CSharp |-> 27718, D |-> 29366, DSharp |-> 31113, E |-> 32963,
   F |-> 34923, FSharp |-> 36999, G |-> 39200, GSharp |-> 41530, A |-> 44000,
   ASharp |-> 46616, B |-> 49388]

\* C10: frequency(note, octave 4) is the note's published base frequency
\* unchanged, for each of the 12 notes, and every note has a frequency.
C10_Octave4IsBaseFrequency ==
  probe.fn = "frequency" =>
    /\ probe.result.s = 1 /\ probe.result.m > 0
    /\ probe.octave = 4 => probe.result = Hundredths(PublishedCentiHz[probe.note])

\* C10's case: the table has been read at octave 4 (here for A = 440.00).
C10_Witness ==
  /\ probe.fn = "frequency" /\ probe.octave = 4 /\ probe.note = "A"
  /\ probe.result = Hundredths(44000)

\* x doubled k times by addition (x + x), the arithmetic the octave relation
\* is stated in.
RECURSIVE DoubleN(_, _)
DoubleN(x, k) == IF k = 0 THEN x ELSE DoubleN(FAdd(x, x), k - 1)

\* The frequency function a probe was made with.
ProbedFrequency(note_name, octave_value) ==
  IF probe.fn = "frequency" THEN frequency(note_name, octave_value)
  ELSE wavetable_frequency(note_name, octave_value)

\* C11: for every note N and octave O, frequency(N, O) is frequency(N, 4)
\* times 2^(O - 4), exactly: at or above octave 4 it is the octave-4 value
\* doubled O - 4 times, below octave 4 doubling it 4 - O times gives the
\* octave-4 value back, and one octave up is exactly its double.
C11_OctaveScalesByPowerOfTwo ==
  probe.fn \in {"frequency", "wavetable_frequency"} =>
    LET ref == ProbedFrequency(probe.note, 4)
        k   == probe.octave - 4
    IN  /\ k >= 0 => probe.result = DoubleN(ref, k)
        /\ k < 0 => DoubleN(probe.result, -k) = ref
        /\ ProbedFrequency(probe.note, probe.octave + 1) = FAdd(probe.result, probe.result)
        /\ probe.result.m > 0

\* C11 witness: a frequency looked up below octave 4 whose halvings do not
\* fit the resolution of the magnitude.
C11_Witness ==
  /\ probe.fn = "frequency"
  /\ probe.octave < 4
  /\ probe.result.e > 0

\* The samples one note is made of.
NoteSamples == take_duration_samples(from_secs_f32(DURATION), NoteRate)

\* C12: the source handed to the sink for one note is finite: it yields
\* exactly floor(duration * sample_rate) samples (12000 for 0.25 s at
\* 48000 Hz), the i-th being AMPLITUDE times the i-th sample of the
\* oscillator, and then it ends.
C12_EnvelopeIsFiniteAndAmplified ==
  /\ \A e \in ended : e.played = NoteSamples
  /\ \A i \in 1 .. Len(queue) :
       queue[i].played + queue[i].source.input.remaining = NoteSamples
  /\ last_played.id # 0 =>
       /\ last_played.index \in 1 .. NoteSamples
       /\ last_played.v = FMul(NthSample(last_played.made, last_played.index), AMPLITUDE)
  /\ take_duration_samples(from_secs_f32(Hundredths(25)), SAMPLE_RATE) = 12000

\* C12 witness: a note has been played out and has ended, its last sample
\* not zero.
C12_Witness ==
  /\ \E e \in ended : e.id = last_played.id /\ e.played = NoteSamples
  /\ last_played.index = NoteSamples
  /\ last_played.v.m > 0

\* C13: notes play strictly one after another in the order they were
\* appended: when a sample of a note is played, every note appended before
\* it has been played to its last sample and has ended.
C13_NotesPlayInAppendOrder ==
  /\ \A i \in 1 .. Len(queue) : \A j \in 1 .. Len(queue) :
       i < j => queue[i].id < queue[j].id
  /\ \A i \in 1 .. Len(queue) : i > 1 => queue[i].played = 0
  /\ last_played.id # 0 =>
       \A k \in 1 .. (last_played.id - 1) :
         \E e \in ended : e.id = k /\ e.played = NoteSamples

\* C13 witness: the first note is being played while the second waits in the
\* queue behind it.
C13_Witness ==
  /\ Len(queue) = 2
  /\ Head(queue).id = 1
  /\ Head(queue).played >= 1
  /\ last_played.id = 1

\* A step of the input loop that appends a note to the sink.
AppendsNote == handle_key_presses /\ appended' = appended + 1

\* C14: appending a note never blocks the input loop: whatever the sink
\* holds, the loop can take its next step and append another note; no step
\* removes a source from the sink other than the head once it has been
\* played out; and with the sink thread scheduled fairly every appended note
\* is eventually played to its last sample.
C14_AppendNeverBlocksAndNotesFinish ==
  /\ [](ENABLED handle_key_presses /\ (appended < MaxTriggers => ENABLED AppendsNote))
  /\ [][\A i \in 1 .. Len(queue) :
          \/ \E j \in 1 .. Len(queue') : queue'[j].id = queue[i].id
          \/ i = 1 /\ queue[i].played = NoteSamples]_vars
  /\ \A id \in 1 .. MaxTriggers :
       (appended >= id) ~> (\E e \in ended : e.id = id /\ e.played = NoteSamples)

\* C14 witness: the sink holds every note the loop appended, none dropped,
\* and the first of them has been played to its last sample.
C14_Witness ==
  /\ appended = MaxTriggers
  /\ Len(queue) = MaxTriggers
  /\ Head(queue).played = NoteSamples
  /\ last_played.index = NoteSamples

\* C15: however the triggers of the input loop and the pulls of the sink
\* thread interleave, each note is played as if it had been generated alone:
\* the oscillator of every note in the sink is in the state a fresh
\* oscillator of that note reaches when pulled on its own as often as the
\* note has been played, whatever was triggered or played in between.
C15_NotesAreIndependent ==
  /\ \A i \in 1 .. Len(queue) :
       /\ queue[i].made.num_sample = 0
       /\ queue[i].source.input.input = Advance(queue[i].made, queue[i].played)
  /\ last_played.id # 0 =>
       last_played.v = FMul(Source_next(Advance(last_played.made, last_played.index - 1)).sample,
                            AMPLITUDE)

\* C15 witness: a second note, square with its filter on, was triggered and
\* waits while the first, also square with its filter on, is part played.
C15_Witness ==
  /\ Len(queue) = 2
  /\ Head(queue).played >= 1
  /\ Head(queue).made.kind = "SQUARE"
  /\ Head(queue).made.filter.filter_active
  /\ queue[2].made.kind = "SQUARE"
  /\ queue[2].made.filter.filter_active

\* C16: two freshly constructed oscillators of the same kind and frequency
\* whose filters are not active return equal samples at every position,
\* whatever cutoff and resonance their idle filters hold: the sample depends
\* on the position and the frequency only.
C16_FreshOscillatorsAgree ==
  (/\ probe.fn = "next"
   /\ probe.first.kind = probe.second.kind
   /\ probe.first.freq = probe.second.freq
   /\ ~probe.first.filter.filter_active
   /\ ~probe.second.filter.filter_active) =>
    probe.result = probe.second_result

\* C16 witness: two square oscillators at 440 Hz whose idle filters hold
\* different cutoffs, compared several samples in at a sample that is not
\* zero.
C16_Witness ==
  /\ probe.fn = "next"
  /\ probe.first.kind = "SQUARE"
  /\ probe.first.filter.filter_cutoff # probe.second.filter.filter_cutoff
  /\ ~probe.first.filter.filter_active
  /\ probe.position >= 3
  /\ probe.result.m > 0

\* C17: every note trigger starts its oscillator from the initial state,
\* whatever was triggered and played before: the oscillator handed to the
\* sink has its counter (or read index) at 0 and the memory of its filter at
\* 0.0, and a note not yet played still holds that oscillator; this also
\* where the note is a clone of main's long-lived wavetable oscillator.
C17_EveryNoteStartsFromInitialState ==
  \A i \in 1 .. Len(queue) :
    LET made == queue[i].made
    IN  /\ IF made.kind = "WAVETABLE"
           THEN made.index = PosZero /\ made.filtered_value = PosZero
           ELSE made.num_sample = 0 /\ made.filter.filtered_value = PosZero
        /\ queue[i].played = 0 =>
             (IF made.kind = "WAVETABLE" THEN queue[i].source.input
              ELSE queue[i].source.input.input) = made

\* C17 witness: a wavetable note is cloned after an earlier one has been
\* played out, with samples that were not zero.
C17_Witness ==
  /\ wavetable.running
  /\ Len(queue) = 1
  /\ Head(queue).id = 2
  /\ Head(queue).played = 0
  /\ last_played.id = 1
  /\ last_played.v.m > 0

\* C18: each note trigger appends exactly one source to the sink, behind
\* what the sink holds; the source is built from the oscillator of the
\* current waveform (Sine when none is chosen) at the frequency of the note
\* in the current octave, and the filter of that oscillator is active,
\* holding the current cutoff and resonance, exactly if filter_active is set
\* when the note is triggered.
C18_TriggerAppendsOneMatchingSource ==
  probe.fn = "handle_musical_notes" =>
    /\ Len(probe.result) = Len(probe.sink) + 1
    /\ SubSeq(probe.result, 1, Len(probe.sink)) = probe.sink
    /\ LET appended_source == probe.result[Len(probe.result)]
           made            == appended_source.made
       IN  /\ appended_source.source =
                amplify(take_duration(made, from_secs_f32(DURATION)), AMPLITUDE)
           /\ made.kind = (IF probe.waveform \in {"SQUARE", "SAW"}
                           THEN probe.waveform ELSE "SINE")
           /\ made.freq = frequency(probe.note, probe.octave)
           /\ made.num_sample = 0
           /\ made.filter.filter_active = probe.active
           /\ made.filter.filtered_value = PosZero
           /\ IF probe.active
              THEN /\ made.filter.filter_cutoff = probe.x
                   /\ made.filter.filter_resonance = probe.resonance
              ELSE made.filter = LowPassFilter_new

\* C18 witness: a note was triggered an octave up with the saw waveform and
\* the filter switched on at a cutoff and a resonance above zero, into a sink
\* that held a source already.
C18_Witness ==
  /\ probe.fn = "handle_musical_notes"
  /\ probe.waveform = "SAW"
  /\ probe.active
  /\ probe.octave = 5
  /\ Len(probe.sink) = 1
  /\ Len(probe.result) = 2
  /\ probe.result[2].made.filter.filter_cutoff = Hundredths(50)
  /\ probe.result[2].made.filter.filter_resonance = Hundredths(50)
  /\ probe.result[2].made.kind = "SAW"

\* C19: every oscillator handle_musical_note constructs, in any State reached
\* from State::new() by octave, waveform, LPF-toggle and cutoff operations,
\* has a frequency above zero.
C19_ConstructedFrequencyPositive ==
  \A i \in 1 .. Len(queue) : FLt(PosZero, queue[i].made.freq)

\* The filter of the oscillator a note triggered now would be given.
AppliedFilter ==
  handle_musical_notes_on(<<>>, 1, octave, current_waveform, filter_active,
                          filter_cutoff, filter_resonance, "q")[1].made.filter

\* C20: from the initial values, after any sequence of the cutoff and
\* resonance handlers, the cutoff applied to an oscillator's filter lies
\* within [FILTER_CUTOFF_LOWER_BOUND, FILTER_CUTOFF_UPPER_BOUND] and the
\* resonance within [FILTER_RESONANCE_LOWER_BOUND, FILTER_RESONANCE_UPPER_BOUND].
C20_AppliedCutoffAndResonanceWithinBounds ==
  filter_active =>
    /\ ~FLt(AppliedFilter.filter_cutoff, FILTER_CUTOFF_LOWER_BOUND)
    /\ ~FLt(FILTER_CUTOFF_UPPER_BOUND, AppliedFilter.filter_cutoff)
    /\ ~FLt(AppliedFilter.filter_resonance, FILTER_RESONANCE_LOWER_BOUND)
    /\ ~FLt(FILTER_RESONANCE_UPPER_BOUND, AppliedFilter.filter_resonance)

\* The last call on the State was of the method op.
StateCalled(op) == probe.fn = "State" /\ probe.op = op

\* C21: from State::new(), after any sequence of increase_octave and
\* decrease_octave the octave is within [OCTAVE_LOWER_BOUND,
\* OCTAVE_UPPER_BOUND]; increase_octave at the upper bound and
\* decrease_octave at the lower bound leave it unchanged, and otherwise each
\* changes it by exactly one.
C21_OctaveStaysWithinBounds ==
  /\ OCTAVE_LOWER_BOUND <= state.octave
  /\ state.octave <= OCTAVE_UPPER_BOUND
  /\ StateCalled("increase_octave") =>
       state.octave = (IF probe.before.octave = OCTAVE_UPPER_BOUND
                       THEN probe.before.octave ELSE probe.before.octave + 1)
  /\ StateCalled("decrease_octave") =>
       state.octave = (IF probe.before.octave = OCTAVE_LOWER_BOUND
                       THEN probe.before.octave ELSE probe.before.octave - 1)

\* C21 witness: increase_octave was called at the upper bound, after the
\* call that reached it.
C21_Witness ==
  /\ StateCalled("increase_octave")
  /\ probe.before.octave = OCTAVE_UPPER_BOUND
  /\ probe.earlier.op = "increase_octave"
  /\ probe.earlier.before.octave = OCTAVE_UPPER_BOUND - 1

\* C22: the State has one current waveform, SINE or SQUARE, and
\* waveform_sprite_index matches it after any sequence of toggle_waveform
\* calls (WAVEFORM_SINE exactly for SINE, WAVEFORM_SQUARE exactly for
\* SQUARE); two toggle_waveform calls in a row restore both fields.
C22_SpriteIndexMatchesWaveform ==
  /\ state.waveform \in {"SINE", "SQUARE"}
  /\ state.waveform = "SINE" <=> state.waveform_sprite_index = WAVEFORM_SINE
  /\ state.waveform = "SQUARE" <=> state.waveform_sprite_index = WAVEFORM_SQUARE
  /\ StateCalled("toggle_waveform") => state.waveform # probe.before.waveform
  /\ StateCalled("toggle_waveform") /\ probe.earlier.op = "toggle_waveform" =>
       /\ state.waveform = probe.earlier.before.waveform
       /\ state.waveform_sprite_index = probe.earlier.before.waveform_sprite_index

\* C22 witness: toggle_waveform was called twice in a row on a State whose
\* waveform was SQUARE.
C22_Witness ==
  /\ StateCalled("toggle_waveform")
  /\ probe.earlier.op = "toggle_waveform"
  /\ probe.earlier.before.waveform = "SQUARE"
  /\ probe.before.waveform = "SINE"
  /\ state.waveform_sprite_index = WAVEFORM_SQUARE

\* C23: every sprite pixel with alpha a > 0 that draw_sprite draws writes a
\* window pixel whose alpha is 0xFF and whose every colour channel is
\* (foreground * a + background * (255 - a)) / 255 in integer arithmetic.
C23_BlendIsOneDivision ==
  probe.fn = "draw_sprite" =>
    \A row \in 0 .. 1 :
      LET sprite_pixel == probe.sprite.data[row + 1]
          index        == probe.y + row + 1
          Blend(fg, bg) == (fg * sprite_pixel.a + bg * (255 - sprite_pixel.a)) \div 255
      IN  index <= Len(probe.window_buffer) /\ sprite_pixel.a > 0 =>
            /\ probe.result[index].a = 255
            /\ probe.result[index].r = Blend(sprite_pixel.r, probe.window_buffer[index].r)
            /\ probe.result[index].g = Blend(sprite_pixel.g, probe.window_buffer[index].g)
            /\ probe.result[index].b = Blend(sprite_pixel.b, probe.window_buffer[index].b)

\* The note keys among the keys a call of handle_key_presses found down, as
\* positions in get_key_mappings.
NoteKeysDown ==
  {i \in 1 .. Len(get_key_mappings) : get_key_mappings[i].key \in probe.pressed}

\* C24: one handle_key_presses call triggers at most one note; with a note
\* key down, the first of them in the order of get_key_mappings plays and is
\* recorded in pressed_key, and octave, waveform, waveform_sprite_index,
\* filter_cutoff and lpf_active are left as they were, whatever control keys
\* are down as well.
C24_OneNotePerCallAndNoControlKeys ==
  probe.fn = "handle_key_presses" =>
    /\ Len(probe.result.sink) <= 1
    /\ NoteKeysDown = {} => probe.result.sink = <<>>
    /\ NoteKeysDown # {} =>
         LET first == get_key_mappings[CHOOSE i \in NoteKeysDown :
                                          \A j \in NoteKeysDown : i <= j]
         IN  /\ Len(probe.result.sink) = 1
             /\ probe.result.sink[1].made = state_synth(probe.before, first.note)
             /\ probe.result.state.pressed_key = [key |-> first.key, note |-> first.note]
             /\ probe.result.state.octave = probe.before.octave
             /\ probe.result.state.waveform = probe.before.waveform
             /\ probe.result.state.waveform_sprite_index =
                  probe.before.waveform_sprite_index
             /\ probe.result.state.filter_cutoff = probe.before.filter_cutoff
             /\ probe.result.state.lpf_active = probe.before.lpf_active

\* C24 witness: Key2 and U were down together with every control key, on a
\* State with the LPF on; the note of Key2 was played.
C24_Witness ==
  /\ probe.fn = "handle_key_presses"
  /\ probe.pressed = {"Key2", "U", "F", "F1", "F2", "F3", "F4"}
  /\ probe.before.lpf_active = 1
  /\ probe.result.state.pressed_key = [key |-> "Key2", note |-> "CSharp"]
  /\ Len(probe.result.sink) = 1

\* C25: in every State reached from State::new() by toggle_lpf,
\* increase_filter_cutoff and decrease_filter_cutoff, lpf_active is 0 or 1
\* and the cutoff is exactly 0.0 whenever lpf_active is 0: toggle_lpf resets
\* the cutoff both when switching on and when switching off, and the cutoff
\* methods change nothing while the LPF is off.
C25_CutoffZeroWhileLpfOff ==
  /\ state.lpf_active \in {0, 1}
  /\ state.lpf_active = 0 => state.filter_cutoff = 0
  /\ StateCalled("toggle_lpf") =>
       /\ state.filter_cutoff = 0
       /\ state.lpf_active # probe.before.lpf_active
  /\ /\ StateCalled("increase_filter_cutoff") \/ StateCalled("decrease_filter_cutoff")
     /\ probe.before.lpf_active = 0
     => state = probe.before

\* C25 witness: toggle_lpf switched the LPF off on a State whose cutoff had
\* been raised.
C25_Witness ==
  /\ StateCalled("toggle_lpf")
  /\ probe.before.lpf_active = 1
  /\ probe.before.filter_cutoff > 0
  /\ state.lpf_active = 0

\* C26: in every reachable State the cutoff is k * 0.142857 for an integer
\* k in 0..7, so never negative and never above 1, and the knob sprite index
\* draw_filter_cutoff_knob_sprite chooses is that k.
C26_CutoffIsStepMultipleAndKnobMatches ==
  /\ 0 <= state.filter_cutoff
  /\ state.filter_cutoff <= CutoffLiteral(100)
  /\ knob_sprite_index(state) \in 0 .. 7
  /\ \E k \in 0 .. 7 : /\ state.filter_cutoff = k * CUTOFF_STEP
                       /\ knob_sprite_index(state) = k

\* C26 witness: the seventh increase_filter_cutoff in a row has been made,
\* and the last knob sprite is chosen.
C26_Witness ==
  /\ StateCalled("increase_filter_cutoff")
  /\ probe.before.filter_cutoff = 6 * CUTOFF_STEP
  /\ state.filter_cutoff = 7 * CUTOFF_STEP
  /\ knob_sprite_index(state) = 7

\* C27: while the LPF is active, a decrease_filter_cutoff that follows an
\* increase_filter_cutoff which changed the cutoff restores the value the
\* cutoff had before the increase, the step from 0.0 to 0.142857 included.
C27_DecreaseUndoesIncrease ==
  /\ StateCalled("decrease_filter_cutoff")
  /\ probe.earlier.op = "increase_filter_cutoff"
  /\ probe.earlier.before.lpf_active = 1
  /\ probe.before.filter_cutoff # probe.earlier.before.filter_cutoff
  => state.filter_cutoff = probe.earlier.before.filter_cutoff

\* x lies in [-1, 1].
InUnitRange(x) == ~FLt(One, FAbs(x))

\* C28: an oscillator whose filter is active with a cutoff in [0, 1], whose
\* last output started at 0.0 and whose raw samples lie in [-1, 1], returns
\* only samples in [-1, 1] and stores only last outputs in [-1, 1], however
\* many samples have been taken.
C28_FilteredOutputStaysInUnitRange ==
  (/\ osc.kind \in Kinds
   /\ osc.filter.filter_active
   /\ ~FLt(osc.filter.filter_cutoff, PosZero)
   /\ ~FLt(One, osc.filter.filter_cutoff)) =>
    /\ InUnitRange(osc.filter.filtered_value)
    /\ Pulled => /\ InUnitRange(RawWave(osc.kind, osc.freq, osc.num_sample))
                 /\ InUnitRange(sample.v)

\* C28 witness: the third sample of a Square oscillator filtered with the
\* cutoff 0.5 is 0.875, the stored last output.
C28_Witness ==
  /\ Pulled /\ calls = 3
  /\ osc.kind = "SQUARE"
  /\ osc.filter.filter_active
  /\ osc.filter.filter_cutoff = Hundredths(50)
  /\ FAbs(sample.v) = F(1, (875 * Scale) \div 1000)
  /\ osc.filter.filtered_value = sample.v

\* C29: on a fresh oscillator whose filter is active with the cutoff 0, zero
\* is absorbing: every sample of the note is 0.0, not only the first, and the
\* last output stays 0.0, whatever the raw waveform values are.
C29_ZeroCutoffSilencesWholeNote ==
  (/\ osc.kind \in Kinds
   /\ osc.filter.filter_active
   /\ FEq(osc.filter.filter_cutoff, PosZero)) =>
    /\ FEq(osc.filter.filtered_value, PosZero)
    /\ Pulled => FEq(sample.v, PosZero)

\* The name the Keyboard would print for an oscillator kind.
KindName(kind) ==
  CASE kind = "SINE"   -> "Sine"
    [] kind = "SQUARE" -> "Square"
    [] kind = "SAW"    -> "Saw"
    [] OTHER           -> "none"

\* C30: handle_toggle_waveforms cycles Sine -> Square -> Saw -> Sine, so
\* three toggles from a chosen waveform return to it; the first toggle from
\* the unset waveform selects Sine; and the waveform the Keyboard displays is
\* the waveform a note trigger plays, after every toggle.
C30_ToggleCyclesAndDisplayMatchesPlayed ==
  /\ [](current_waveform # "NONE" =>
          /\ toggled_waveform(toggled_waveform(toggled_waveform(current_waveform)))
               = current_waveform
          /\ keyboard.current_waveform = current_waveform)
  /\ [][current_waveform' # current_waveform =>
          /\ current_waveform = "NONE" => current_waveform' = "SINE"
          /\ current_waveform = "SINE" => current_waveform' = "SQUARE"
          /\ current_waveform = "SQUARE" => current_waveform' = "SAW"
          /\ current_waveform = "SAW" => current_waveform' = "SINE"
          /\ Waveform_fmt(keyboard'.current_waveform) =
               KindName(synth(current_waveform', frequency("A", octave'), filter_active',
                              filter_cutoff', filter_resonance').kind)]_vars
  /\ [][(note' # "NONE" /\ calls' = 0 /\ <<note, osc, calls>>' # <<note, osc, calls>>) =>
          KindName(osc'.kind) = Waveform_fmt(keyboard.current_waveform)]_vars

\* C30 witness: after the toggles from unset to Sine, Square and Saw, a note
\* is triggered as a Saw while the Keyboard displays Saw.
C30_Witness ==
  /\ current_waveform = "SAW"
  /\ Waveform_fmt(keyboard.current_waveform) = "Saw"
  /\ note # "NONE"
  /\ calls = 0
  /\ osc.kind = "SAW"

====
